---- MODULE Spec2Model ----
(***************************************************************************)
(* Model of the agent coordination core of the clinical research           *)
(* assistant: src/src/services/agent_coordinator.py (AgentWorker and       *)
(* AgentCoordinator), with the parts of src/src/models/agent_run.py,       *)
(* src/src/mcp/config.py and src/src/agents/base.py it depends on.         *)
(*                                                                         *)
(* Two threads of control are modelled.  The foreground (Qt main) thread   *)
(* runs the coordinator's public methods and the slots connected to the    *)
(* worker's signals, one handler at a time.  Each AgentWorker is a QThread *)
(* that runs the coroutine _run_orchestrator in its own asyncio loop; its  *)
(* statements interleave with the foreground handlers.  The worker's       *)
(* finished / error signals reach the coordinator's slots through the      *)
(* main thread's event queue (a queued connection: the emitter is not the  *)
(* receiver's thread).                                                     *)
(*                                                                         *)
(* Beside the coordinator the module holds the approvals table             *)
(* (src/src/models/approval.py), the workspace manager                     *)
(* (src/src/services/workspace_manager.py) and the TaskPlan model          *)
(* (src/src/agents/orchestrator.py), each with a specification of its own. *)
(***************************************************************************)
EXTENDS Integers, Sequences, FiniteSets, TLC

\* ---------------------------------------------------------------- bounds
MaxRuns == 2        \* workers ever created (accepted run_async calls)
MaxSteps == 2       \* steps of the largest plan the agent proposes
MaxGates == 1       \* gate requests (approval or question) raised in all
MaxOvershoot == 1   \* 'Delegating' events observed beyond the last step of a plan
MaxResponses == 2   \* calls of the two response handlers in all
MaxApprovals == 2   \* rows of the approvals table
MaxDecisions == 3   \* calls of Approval.approve and Approval.deny in all
MaxWorkspaces == 1  \* workspace directories created
MaxDepth == 2       \* nesting of the exception objects classified
MaxDocuments == 1   \* files written below the workspaces

\* ------------------------------------------------------------ value sets
Prompts == {<<"p1">>}       \* a prompt is a sequence of text fragments
Notes == {"", "ok"}
Answers == {"optA", "free text"}
QuestionOptions == <<"optA", "optB">>
ProgressLabels == {"Delegating", "In Progress"}
\* get_config(): the launcher and the search credential both present or both absent
Configs == {[npx_available |-> TRUE, brave_api_key |-> TRUE],
            [npx_available |-> FALSE, brave_api_key |-> FALSE]}
\* what the researcher submits: an approval with notes, a denial without
ApprovalResponses == {<<TRUE, "ok">>, <<FALSE, "">>}

SubAgents == <<"project_manager", "document_maker", "email_drafter">>

\* orchestrator.py: TaskPlan / PlanStep as produced by model_dump()
PlanStep(i) ==
    [description |-> "desc" \o ToString(i),
     agent |-> SubAgents[((i - 1) % 3) + 1],
     requires_approval |-> (i % 2 = 0)]

TaskPlan(n) ==
    [goal |-> "goal" \o ToString(n),
     steps |-> [i \in 1..n |-> PlanStep(i)]]

Plans == {TaskPlan(MaxSteps)}

NoPlan == [goal |-> "<None>", steps |-> <<>>, none |-> TRUE]

\* the value orchestrator_agent.run returns: output is a TaskPlan or a str
TextResult == [hasOutput |-> TRUE, kind |-> "text", plan |-> NoPlan]
PlanResult(p) == [hasOutput |-> TRUE, kind |-> "plan", plan |-> p]
NoResult == [hasOutput |-> FALSE, kind |-> "none", plan |-> NoPlan]
Results == {TextResult} \cup {PlanResult(p) : p \in Plans}

\* exceptions the agent invocation may raise: a provisioning error, which
\* is an ordinary Exception, and CancelledError, a BaseException that is no
\* Exception
ExcClasses == {"TimeoutError", "CancelledError"}

\* further failures: a generic one, a rejected credential, and an
\* ExceptionGroup of two causes that are no provisioning errors
FailureClasses ==
    ExcClasses \cup {"ValueError", "AuthenticationError", "ExceptionGroup"}

\* exc.exceptions of an exception group, <<>> for any other exception
SubCauses(e) ==
    IF e = "ExceptionGroup" THEN <<"ValueError", "AuthenticationError">> ELSE <<>>

\* the exception db_session.commit() raises when the database refuses a write
DatabaseError == "OperationalError"

IsException(e) ==
    e \in {"TimeoutError", "ValueError", "AuthenticationError", "ExceptionGroup",
           DatabaseError}

\* _is_mcp_error, line 36: the classes that count as provisioning errors
mcp_types == {"TimeoutError", "FileNotFoundError", "ConnectionError", "OSError"}

\* an exception object: its class, exc.exceptions (empty unless it is a
\* group) and exc.__cause__, <<>> for None and <<cause>> otherwise
Exc(class, exceptions, cause) ==
    [class |-> class, exceptions |-> exceptions, cause |-> cause]

Leaf(class) == Exc(class, <<>>, <<>>)

\* the exception object the run driver sees for a class of ExcClasses or
\* FailureClasses: no chained cause, the members of SubCauses
Raised(e) ==
    Exc(e, IF SubCauses(e) = <<>> THEN <<>>
           ELSE [i \in DOMAIN SubCauses(e) |-> Leaf(SubCauses(e)[i])], <<>>)

\* _is_mcp_error, lines 38-44: the class itself, else the members of a
\* group, else the chained cause of an exception that is no group
RECURSIVE _is_mcp_error(_)
_is_mcp_error(exc) ==
    IF exc.class \in mcp_types
    THEN TRUE
    ELSE IF exc.class = "ExceptionGroup"
    THEN \E i \in DOMAIN exc.exceptions : _is_mcp_error(exc.exceptions[i])
    ELSE IF exc.cause # <<>>
    THEN _is_mcp_error(exc.cause[1])
    ELSE FALSE

\* the message an exception was raised with
Message(e) ==
    IF e = "TimeoutError" THEN "timeout starting the tool server"
    ELSE IF e = "AuthenticationError" THEN "401 authentication rejected"
    ELSE IF e = "ExceptionGroup" THEN "unhandled errors in a TaskGroup"
    ELSE "failure of " \o e

\* str(e): a text is a sequence of fragments; the text of a group names
\* the number of its members and none of them
str(e) ==
    IF SubCauses(e) # <<>>
    THEN <<Message(e), "(" \o ToString(Len(SubCauses(e))) \o " sub-exceptions)">>
    ELSE <<Message(e)>>

\* traceback.format_exception of one exception
format_exception(e) == "Traceback: " \o e \o ": " \o Message(e)

RECURSIVE format_subs(_, _)
format_subs(subs, i) ==
    IF i > Len(subs)
    THEN <<>>
    ELSE <<"--- Sub-exception " \o ToString(i) \o " ---", format_exception(subs[i])>>
         \o format_subs(subs, i + 1)

\* _format_error: the traceback text, a group unwrapped into its members
_format_error(e) ==
    IF SubCauses(e) # <<>>
    THEN <<e \o ": " \o Message(e)>> \o format_subs(SubCauses(e), 1)
    ELSE <<format_exception(e)>>

\* the fragments of a text, joined
RECURSIVE Join(_)
Join(text) == IF text = <<>> THEN "" ELSE Head(text) \o Join(Tail(text))

\* _format_user_error: the patterns looked for in the lower-cased text
Mentions(error, e) ==
    \E i \in DOMAIN error : error[i] = format_exception(e)

_format_user_error(error) ==
    IF Mentions(error, "TimeoutError")
    THEN "An MCP tool server timed out while starting."
    ELSE IF Mentions(error, "AuthenticationError")
    THEN "API authentication failed. Please check that your ANTHROPIC_API_KEY is set correctly."
    ELSE Join(error)

\* ------------------------------------------------------------- variables
VARIABLES
    \* AgentCoordinator fields
    _approval_event,      \* id of the asyncio.Event, 0 = None
    _approval_result,
    _approval_notes,
    _question_event,
    _question_answer,
    _current_worker,      \* index into workers, 0 = None
    _mcp_toolsets,
    _pending_plan,
    _executing_plan,
    _current_step_index,
    \* environment of the coordinator
    config,               \* get_config(): npx_available, BRAVE_API_KEY set
    workers,              \* every AgentWorker created so far
    ledger,               \* AgentRun records of the session, and what is committed
    eventsSet,            \* asyncio.Event objects whose flag is set
    nextEvent,            \* number of asyncio.Event objects created
    mainQueue,            \* queued slot calls pending in the main thread
    clock,                \* datetime.utcnow()
    fg,                   \* position of the foreground thread inside a handler
    responses,            \* calls of the response handlers so far
    \* observation of the last step taken
    emitted,              \* signals emitted by the last step, in order
    last,                 \* the last step: handler or statement, worker, input
    stepSignals,          \* step_status_changed signals since the plan started executing
    gate,                 \* history of the gate request outstanding, if any
    \* the stores behind the coordinator
    approvals,            \* rows of the approvals table (models/approval.py)
    files,                \* the files below the workspaces' base directory
    returned              \* the call of a model or service function last made, with its value

coordVars == <<_approval_event, _approval_result, _approval_notes,
               _question_event, _question_answer, _current_worker,
               _mcp_toolsets, _pending_plan, _executing_plan,
               _current_step_index>>

vars == <<_approval_event, _approval_result, _approval_notes,
          _question_event, _question_answer, _current_worker,
          _mcp_toolsets, _pending_plan, _executing_plan,
          _current_step_index, config, workers, ledger, eventsSet,
          nextEvent, mainQueue, clock, fg, responses, emitted, last,
          stepSignals, gate, approvals, files, returned>>

\* the stores and the record of direct calls, which no method of the
\* coordinator reads or writes
dataVars == <<approvals, files, returned>>

\* ------------------------------------------------------ tool provisioning
NoToolsets == [none |-> TRUE, filesystem |-> FALSE, web_search |-> FALSE, email |-> FALSE]

\* mcp/config.py: MCPToolsets() with every connection None
MCPToolsets == [none |-> FALSE, filesystem |-> FALSE, web_search |-> FALSE, email |-> FALSE]

create_mcp_toolsets(npx_available, brave_api_key) ==
    IF ~npx_available
    THEN MCPToolsets
    ELSE [none |-> FALSE, filesystem |-> TRUE,
          web_search |-> brave_api_key, email |-> FALSE]

\* agents/base.py: the filesystem entry is listed even when it is None
get_active_mcp_servers(t) ==
    <<IF t.filesystem THEN "filesystem" ELSE "None">>
    \o (IF t.web_search THEN <<"web_search">> ELSE <<>>)
    \o (IF t.email THEN <<"email">> ELSE <<>>)

\* ---------------------------------------------------------------- ledger
\* models/agent_run.py; committed is the status the last commit persisted
AgentRun(p, w, now) ==
    [prompt |-> p, status |-> "running", started_at |-> now,
     completed_at |-> -1, output |-> FALSE, error_message |-> FALSE,
     error_text |-> <<>>, committed |-> "none", worker |-> w]

complete(r, now) ==
    [r EXCEPT !.status = "completed", !.completed_at = now, !.output = TRUE]

\* error_message: whether the column is set; error_text: what it holds
fail(r, error, now) ==
    [r EXCEPT !.status = "failed", !.completed_at = now,
              !.error_message = TRUE, !.error_text = error]

\* db_session.commit(): every record of the session is flushed
commit(l) == [i \in DOMAIN l |-> [l[i] EXCEPT !.committed = l[i].status]]

\* --------------------------------------------------------------- workers
AgentWorker(p) ==
    [state |-> "running",       \* QThread: running, done (run() returned), terminated
     loop |-> 0,                \* attribute loop: the worker whose asyncio loop it holds, 0 = None
     loopState |-> "none",      \* asyncio loop of this thread: none, open, closed
     pc |-> "start",
     prompt |-> p,
     run |-> 0,                 \* index of its AgentRun in the ledger
     servers |-> <<>>,          \* mcp_servers
     toolsets |-> <<>>,         \* toolsets handed to the current invocation
     invocations |-> 0,         \* calls of orchestrator_agent.run
     mcp_exc |-> "none",        \* exception caught from the first invocation
     exc |-> "none",            \* exception propagating out of the coroutine
     result |-> NoResult,
     callbacks |-> {},          \* Event.set calls scheduled on the loop
     event |-> 0,               \* the asyncio.Event the coroutine awaits
     steps |-> <<>>,            \* _send_progress: its local variable steps
     signals |-> {},            \* history: the signals run() has emitted
     reported |-> 0]            \* history: runs of _on_agent_error for its error signal

isRunning(w) == workers[w].state = "running"

\* a thread that has ended: the AgentWorker object remains, with its loop
\* attribute and its loop; the frame of the coroutine is gone
Ended(worker, state) ==
    [AgentWorker(worker.prompt) EXCEPT
        !.state = state, !.pc = "ended", !.loop = worker.loop,
        !.loopState = worker.loopState, !.callbacks = worker.callbacks,
        !.signals = worker.signals, !.reported = worker.reported]

Running == {w \in DOMAIN workers : isRunning(w)}

Signal(name, a, b) == <<name, a, b>>

FgIdle == [pc |-> "idle", approved |-> FALSE, notes |-> ""]

Step(op, w) == [op |-> op, worker |-> w, n |-> -1]

\* a step that is no slot of the worker's signals, no stop, no error and
\* no call of create_mcp_toolsets
Quiet == Step("-", 0)

NoGate ==
    [kind |-> "none", worker |-> 0, event |-> 0, notified |-> FALSE,
     responses |-> 0, approved |-> FALSE, notes |-> "", answer |-> "",
     returned |-> FALSE, retApproved |-> FALSE, retAnswer |-> "",
     retNotes |-> ""]

Min(a, b) == IF a < b THEN a ELSE b

\* no call of a model or service function made yet
NoCall == [op |-> "none", arg |-> <<>>, value |-> <<>>, from |-> <<>>]

\* a call, its argument, the value it returned, and what the argument was
\* obtained from
Call(op, arg, value, from) == [op |-> op, arg |-> arg, value |-> value, from |-> from]

\* datetime.utcnow(): every reading is later than the one before
Later(now) == {now + 1}

\* ------------------------------------------------------------------ Init
Init ==
    /\ _approval_event = 0
    /\ _approval_result = FALSE
    /\ _approval_notes = ""
    /\ _question_event = 0
    /\ _question_answer = ""
    /\ _current_worker = 0
    /\ _mcp_toolsets = NoToolsets
    /\ _pending_plan = NoPlan
    /\ _executing_plan = NoPlan
    /\ _current_step_index = -1
    /\ config \in Configs
    /\ workers = <<>>
    /\ ledger = <<>>
    /\ eventsSet = {}
    /\ nextEvent = 0
    /\ mainQueue = <<>>
    /\ clock = 0
    /\ fg = FgIdle
    /\ responses = 0
    /\ emitted = <<>>
    /\ last = Quiet
    /\ stepSignals = {}
    /\ gate = NoGate
    /\ approvals = <<>>
    /\ files = {}
    /\ returned = NoCall

\* ------------------------------------------------- foreground: run_async
\* signals the claims observe
RejectionNotice ==
    Signal("message_received", "System", "An agent is already running. Please wait.")

PlanApprovedNotice ==
    Signal("message_received", "System", "Plan approved. Executing...")

PlanDeclinedNotice ==
    Signal("message_received", "System", "Plan declined.")

RunningStatus == Signal("status_changed", "running", "Orchestrator")

CompletedStatus == Signal("status_changed", "completed", "")

IdleStatus == Signal("status_changed", "idle", "")

TaskCleared == Signal("task_changed", "", "")

\* a guard that lets every submission through
run_async_never_rejects == FALSE

\* run_async, lines 151-153: the guard that rejects a submission
run_async_rejects ==
    _current_worker # 0 /\ isRunning(_current_worker)

\* a rejection that announces a run all the same
run_async_announcing(prompt, before) ==
    IF run_async_rejects
    THEN /\ emitted' = before \o
                <<RejectionNotice, RunningStatus, Signal("task_changed", "<prompt>", "")>>
         /\ UNCHANGED <<workers, _current_worker>>
    ELSE /\ workers' = Append(workers, AgentWorker(prompt))
         /\ _current_worker' = Len(workers) + 1
         /\ emitted' = before \o
                <<RunningStatus, Signal("task_changed", "<prompt>", "")>>

\* run_async(prompt) called with `before` already emitted by the caller
run_async(prompt, before) ==
    IF run_async_rejects
    THEN /\ emitted' = before \o <<RejectionNotice>>
         /\ UNCHANGED <<workers, _current_worker>>
    ELSE /\ workers' = Append(workers, AgentWorker(prompt))
         /\ _current_worker' = Len(workers) + 1
         /\ emitted' = before \o
                <<RunningStatus, Signal("task_changed", "<prompt>", "")>>

RunAsync(prompt) ==
    /\ fg.pc = "idle"
    /\ run_async_rejects \/ Len(workers) < MaxRuns
    /\ run_async(prompt, <<>>)
    /\ last' = Quiet
    /\ UNCHANGED <<_approval_event, _approval_result, _approval_notes,
                   _question_event, _question_answer, _mcp_toolsets,
                   _pending_plan, _executing_plan, _current_step_index,
                   config, dataVars, ledger, eventsSet, nextEvent, mainQueue, clock,
                   fg, responses, stepSignals, gate>>

\* ------------------------------------------------------ foreground: stop
Stop ==
    /\ fg.pc = "idle"
    /\ IF _current_worker # 0 /\ isRunning(_current_worker)
       THEN /\ workers' = [workers EXCEPT ![_current_worker] = Ended(@, "terminated")]
            /\ _current_worker' = 0
            /\ emitted' = <<IdleStatus, TaskCleared>>
            /\ last' = Step("stop", _current_worker)
       ELSE /\ emitted' = <<>>
            /\ last' = Quiet
            /\ UNCHANGED <<workers, _current_worker>>
    /\ UNCHANGED <<_approval_event, _approval_result, _approval_notes,
                   _question_event, _question_answer, _mcp_toolsets,
                   _pending_plan, _executing_plan, _current_step_index,
                   config, dataVars, ledger, eventsSet, nextEvent, mainQueue, clock,
                   fg, responses, stepSignals, gate>>

\* ------------------------------------------- foreground: gate responses
\* loop.call_soon_threadsafe(event.set) on the loop held by the current
\* worker; a loop that asyncio.run has closed raises RuntimeError
LoopClosed == workers[workers[_current_worker].loop].loopState = "closed"

call_soon_threadsafe(ev) ==
    IF LoopClosed
    THEN UNCHANGED workers
    ELSE workers' = [workers EXCEPT ![workers[_current_worker].loop].callbacks = @ \cup {ev}]

\* history: a response counts for the outstanding request once its
\* notification has been emitted
Responded(kind, approved, notes, answer) ==
    IF gate.kind = kind /\ gate.notified /\ ~gate.returned
    THEN [gate EXCEPT !.responses = Min(@ + 1, 2), !.approved = approved,
                      !.notes = notes, !.answer = answer]
    ELSE gate

\* handle_question_response, line 335
HandleQuestionResponse(answer) ==
    /\ fg.pc = "idle"
    /\ responses < MaxResponses
    /\ responses' = responses + 1
    /\ _question_answer' = answer
    /\ fg' = [fg EXCEPT !.pc = "question_wake"]
    /\ gate' = Responded("question", FALSE, "", answer)
    /\ emitted' = <<>>
    /\ last' = Quiet
    /\ UNCHANGED <<_approval_event, _approval_result, _approval_notes,
                   _question_event, _current_worker, _mcp_toolsets,
                   _pending_plan, _executing_plan, _current_step_index,
                   config, dataVars, workers, ledger, eventsSet, nextEvent, mainQueue,
                   clock, stepSignals>>

\* handle_question_response, lines 336-339
question_wakes ==
    _question_event # 0 /\ _current_worker # 0 /\ workers[_current_worker].loop # 0

QuestionWake ==
    /\ fg.pc = "question_wake"
    /\ fg' = FgIdle
    /\ IF question_wakes
       THEN /\ call_soon_threadsafe(_question_event)
            /\ last' = IF LoopClosed THEN Step("RuntimeError", _current_worker) ELSE Quiet
       ELSE /\ UNCHANGED workers
            /\ last' = Quiet
    /\ emitted' = <<>>
    /\ UNCHANGED <<coordVars, config, dataVars, ledger, eventsSet, nextEvent, mainQueue,
                   clock, responses, stepSignals, gate>>

\* handle_approval_response, lines 349-350
HandleApprovalResponse(approved, notes) ==
    /\ fg.pc = "idle"
    /\ responses < MaxResponses
    /\ responses' = responses + 1
    /\ (approved /\ _pending_plan # NoPlan) => (run_async_rejects \/ Len(workers) < MaxRuns)
    /\ _approval_result' = approved
    /\ _approval_notes' = notes
    /\ fg' = [pc |-> "approval_decide", approved |-> approved, notes |-> notes]
    /\ gate' = Responded("approval", approved, notes, "")
    /\ emitted' = <<>>
    /\ last' = Quiet
    /\ UNCHANGED <<_approval_event, _question_event, _question_answer,
                   _current_worker, _mcp_toolsets, _pending_plan,
                   _executing_plan, _current_step_index, config, dataVars, workers,
                   ledger, eventsSet, nextEvent, mainQueue, clock, stepSignals>>

\* _execute_plan, lines 441-444: one line per step, numbered from 1
RECURSIVE steps_text(_, _)
steps_text(steps, i) ==
    IF i > Len(steps)
    THEN <<>>
    ELSE <<ToString(i), steps[i].agent, steps[i].description>>
         \o steps_text(steps, i + 1)

\* _execute_plan, lines 445-455
execution_prompt(plan_data, notes) ==
    <<"The researcher approved the following plan. Execute it now",
      "Goal:", plan_data.goal, "Steps:">>
    \o steps_text(plan_data.steps, 1)
    \o (IF notes # "" THEN <<"Researcher notes:", notes>> ELSE <<>>)

\* a decision that executes the plan whatever the researcher answered
plan_is_always_executed(approved) == TRUE

\* handle_approval_response, line 356: whether the decided plan is executed
plan_is_executed(approved) == approved

\* a plan decision that goes on to the in-agent wait
plan_decision_falls_through == [fg EXCEPT !.pc = "approval_decide"]

\* handle_approval_response, line 363: the call returns once the plan is decided
plan_decision_returns == FgIdle

\* a decision that leaves the proposal pending
pending_plan_kept == _pending_plan

\* handle_approval_response, line 355: the proposal is cleared before it
\* is acted on
pending_plan_cleared == NoPlan

\* handle_approval_response, lines 353-363, with _execute_plan inlined
DecidePlan ==
    /\ fg.pc = "approval_decide"
    /\ _pending_plan # NoPlan
    /\ _pending_plan' = pending_plan_cleared
    /\ fg' = plan_decision_returns
    /\ IF plan_is_executed(fg.approved)
       THEN /\ run_async_rejects \/ Len(workers) < MaxRuns
            /\ _executing_plan' = _pending_plan
            /\ _current_step_index' = -1
            /\ stepSignals' = {}
            /\ run_async(execution_prompt(_pending_plan, fg.notes),
                         <<PlanApprovedNotice>>)
            /\ last' = Quiet
       ELSE /\ emitted' = <<PlanDeclinedNotice, CompletedStatus, TaskCleared>>
            /\ last' = Quiet
            /\ UNCHANGED <<workers, _current_worker, _executing_plan,
                           _current_step_index, stepSignals>>
    /\ UNCHANGED <<_approval_event, _approval_result, _approval_notes,
                   _question_event, _question_answer, _mcp_toolsets, config, dataVars,
                   ledger, eventsSet, nextEvent, mainQueue, clock, responses,
                   gate>>

\* handle_approval_response, lines 366-370
approval_wakes ==
    _approval_event # 0 /\ _current_worker # 0 /\ workers[_current_worker].loop # 0

ApprovalWake ==
    /\ fg.pc = "approval_decide"
    /\ _pending_plan = NoPlan
    /\ fg' = FgIdle
    /\ IF approval_wakes
       THEN /\ call_soon_threadsafe(_approval_event)
            /\ last' = IF LoopClosed THEN Step("RuntimeError", _current_worker) ELSE Quiet
       ELSE /\ UNCHANGED workers
            /\ last' = Quiet
    /\ emitted' = <<>>
    /\ UNCHANGED <<coordVars, config, dataVars, ledger, eventsSet, nextEvent, mainQueue,
                   clock, responses, stepSignals, gate>>

\* ------------------------------------- foreground: slots of the worker
\* step_status_changed(i, status) for the steps i of a range
StepSignals(indices, status) == {<<i, status>> : i \in indices}

RECURSIVE EmitSteps(_, _, _)
EmitSteps(from, to, status) ==
    IF from > to
    THEN <<>>
    ELSE <<Signal("step_status_changed", ToString(from), status)>>
         \o EmitSteps(from + 1, to, status)

\* a completion that leaves the last step of the plan unmarked
completed_but_last(plan_data) == 0..(Len(plan_data.steps) - 2)

\* _on_agent_finished, lines 405-407: the steps marked completed
completed_on_finish(plan_data) == 0..(Len(plan_data.steps) - 1)

\* a test that takes a plan for a proposal only when none is executing
is_proposal_when_idle(result) == result.kind = "plan" /\ _executing_plan = NoPlan

\* _on_agent_finished, line 385: the output is a TaskPlan
is_proposal(result) == result.kind = "plan"

\* _on_agent_finished
_on_agent_finished(w, result) ==
    /\ UNCHANGED workers
    /\ last' = [Step("_on_agent_finished", w) EXCEPT
                   !.n = IF result.kind = "text" /\ _executing_plan # NoPlan
                         THEN Len(_executing_plan.steps) ELSE -1]
    /\ IF ~result.hasOutput
       THEN /\ emitted' = <<Signal("status_changed", "completed", ""),
                            Signal("task_changed", "", ""),
                            Signal("history_entry", "Task completed", "completed")>>
            /\ UNCHANGED <<_pending_plan, _executing_plan, _current_step_index,
                           stepSignals>>
       ELSE IF is_proposal(result)
       THEN /\ _pending_plan' = result.plan
            /\ emitted' = <<Signal("plan_updated", result.plan.goal, ""),
                            Signal("message_received", "Assistant", "<plan>"),
                            Signal("history_entry", "Plan created", "completed"),
                            Signal("approval_requested", "Execute this plan?",
                                   result.plan.goal)>>
            /\ UNCHANGED <<_executing_plan, _current_step_index, stepSignals>>
       ELSE /\ IF _executing_plan # NoPlan
               THEN /\ stepSignals' = stepSignals \cup
                        StepSignals(completed_on_finish(_executing_plan), "completed")
                    /\ _executing_plan' = NoPlan
                    /\ _current_step_index' = -1
               ELSE UNCHANGED <<_executing_plan, _current_step_index, stepSignals>>
            /\ emitted' =
                 (IF _executing_plan # NoPlan
                  THEN EmitSteps(0, Len(_executing_plan.steps) - 1, "completed")
                  ELSE <<>>)
                 \o <<Signal("status_changed", "completed", ""),
                      Signal("task_changed", "", ""),
                      Signal("message_received", "Assistant", "<output>"),
                      Signal("history_entry", "Task completed", "completed")>>
            /\ UNCHANGED _pending_plan

\* a cursor test that takes every cursor for a step of the plan
cursor_always_in_plan(plan_data) == TRUE

\* _on_agent_error, line 424: the cursor points at a step of the plan
cursor_in_plan(plan_data) ==
    0 <= _current_step_index /\ _current_step_index < Len(plan_data.steps)

\* an error reported to the chat and to the history twice
error_reports_twice(friendly) ==
    <<Signal("message_received", "System", "Error: " \o friendly),
      Signal("history_entry", "Error: " \o friendly, "failed"),
      Signal("message_received", "System", "Error: " \o friendly),
      Signal("history_entry", "Error: " \o friendly, "failed")>>

\* _on_agent_error, lines 431-432: the chat message and the history entry
error_reports(friendly) ==
    <<Signal("message_received", "System", "Error: " \o friendly),
      Signal("history_entry", "Error: " \o friendly, "failed")>>

\* _on_agent_error
_on_agent_error(w, error) ==
    /\ workers' = [workers EXCEPT ![w].reported = Min(@ + 1, 2)]
    /\ last' = [Step("_on_agent_error", w) EXCEPT
                   !.n = IF _executing_plan # NoPlan
                         THEN Len(_executing_plan.steps) ELSE -1]
    /\ IF _executing_plan # NoPlan
       THEN /\ stepSignals' =
                 IF cursor_in_plan(_executing_plan)
                 THEN stepSignals \cup {<<_current_step_index, "failed">>}
                 ELSE stepSignals
            /\ _executing_plan' = NoPlan
            /\ _current_step_index' = -1
       ELSE UNCHANGED <<_executing_plan, _current_step_index, stepSignals>>
    /\ emitted' =
         (IF _executing_plan # NoPlan /\ cursor_in_plan(_executing_plan)
          THEN <<Signal("step_status_changed", ToString(_current_step_index), "failed")>>
          ELSE <<>>)
         \o <<Signal("status_changed", "error", ""), TaskCleared>>
         \o error_reports(_format_user_error(error))
    /\ UNCHANGED _pending_plan

\* the main thread's event loop delivers the next queued signal to its slot
DeliverSignal ==
    /\ fg.pc = "idle"
    /\ mainQueue # <<>>
    /\ mainQueue' = Tail(mainQueue)
    /\ IF Head(mainQueue).signal = "finished"
       THEN _on_agent_finished(Head(mainQueue).worker, Head(mainQueue).result)
       ELSE _on_agent_error(Head(mainQueue).worker, Head(mainQueue).error)
    /\ UNCHANGED <<_approval_event, _approval_result, _approval_notes,
                   _question_event, _question_answer, _current_worker,
                   _mcp_toolsets, config, dataVars, ledger, eventsSet,
                   nextEvent, clock, fg, responses, gate>>

\* --------------------------------------------- worker: _run_orchestrator
At(w, pc) == w \in DOMAIN workers /\ isRunning(w) /\ workers[w].pc = pc

workerFrame == <<config, dataVars, nextEvent, fg, responses>>

\* asyncio.run starts the loop; _run_orchestrator, lines 177-178
WorkerStart(w) ==
    /\ At(w, "start")
    /\ workers' =
         IF _current_worker # 0
         THEN [[workers EXCEPT ![w].loopState = "open", ![w].pc = "provision"]
                  EXCEPT ![_current_worker].loop = w]
         ELSE [workers EXCEPT ![w].loopState = "open", ![w].pc = "provision"]
    /\ emitted' = <<>>
    /\ last' = Quiet
    /\ UNCHANGED <<coordVars, workerFrame, ledger, eventsSet, mainQueue, clock,
                   stepSignals, gate>>

\* a test that provisions tools on every run
provisions_always == TRUE

\* _run_orchestrator, line 181: tools are provisioned when no set is held
provisions == _mcp_toolsets = NoToolsets

\* _run_orchestrator, lines 181-185
Provision(w) ==
    /\ At(w, "provision")
    /\ _mcp_toolsets' =
         IF provisions
         THEN create_mcp_toolsets(config.npx_available, config.brave_api_key)
         ELSE _mcp_toolsets
    /\ workers' = [workers EXCEPT ![w].pc = "begin"]
    /\ emitted' = <<>>
    /\ last' = IF provisions THEN Step("create_mcp_toolsets", w) ELSE Quiet
    /\ UNCHANGED <<_approval_event, _approval_result, _approval_notes,
                   _question_event, _question_answer, _current_worker,
                   _pending_plan, _executing_plan, _current_step_index,
                   workerFrame, ledger, eventsSet, mainQueue, clock,
                   stepSignals, gate>>

\* _run_orchestrator, lines 188-196
BeginRun(w) ==
    /\ At(w, "begin")
    /\ clock' \in Later(clock)
    /\ ledger' = commit(Append(ledger, AgentRun(workers[w].prompt, w, clock)))
    /\ workers' = [workers EXCEPT ![w].run = Len(ledger) + 1, ![w].pc = "invoke"]
    /\ emitted' = <<>>
    /\ last' = Quiet
    /\ UNCHANGED <<coordVars, workerFrame, eventsSet, mainQueue, stepSignals, gate>>

\* _run_orchestrator, lines 199-220: deps, mcp_servers, first invocation
Invoke(w) ==
    /\ At(w, "invoke")
    /\ workers' = [workers EXCEPT
                      ![w].servers = get_active_mcp_servers(_mcp_toolsets),
                      ![w].toolsets = get_active_mcp_servers(_mcp_toolsets),
                      ![w].invocations = 1,
                      ![w].pc = "agent"]
    /\ emitted' = <<>>
    /\ last' = Quiet
    /\ UNCHANGED <<coordVars, workerFrame, ledger, eventsSet, mainQueue, clock,
                   stepSignals, gate>>

\* _send_progress, lines 295-303: (cursor, step signals) after one event
delegation_advances(status) ==
    status = "Delegating" /\ _executing_plan # NoPlan

progress_signals(status) ==
    IF delegation_advances(status)
    THEN (IF cursor_in_plan(_executing_plan)
          THEN {<<_current_step_index, "completed">>} ELSE {})
         \cup
         (IF _current_step_index + 1 < Len(_executing_plan.steps)
          THEN {<<_current_step_index + 1, "running">>} ELSE {})
    ELSE {}

\* a cursor that skips a step at every delegation
progress_cursor_skipping(status) ==
    IF delegation_advances(status)
    THEN _current_step_index + 2
    ELSE _current_step_index

progress_cursor(status) ==
    IF delegation_advances(status)
    THEN _current_step_index + 1
    ELSE _current_step_index

progress_emits(status) ==
    <<Signal("message_received", "Assistant", status),
      Signal("history_entry", status, "running")>>
    \o (IF delegation_advances(status) /\ cursor_in_plan(_executing_plan)
        THEN <<Signal("step_status_changed", ToString(_current_step_index), "completed")>>
        ELSE <<>>)
    \o (IF delegation_advances(status)
           /\ _current_step_index + 1 < Len(_executing_plan.steps)
        THEN <<Signal("step_status_changed", ToString(_current_step_index + 1), "running")>>
        ELSE <<>>)

\* the agent calls progress_callback (orchestrator.py, lines 77, 107, 137, 179)
AgentProgress(w, status) ==
    /\ At(w, "agent")
    /\ delegation_advances(status) =>
           _current_step_index < Len(_executing_plan.steps) - 1 + MaxOvershoot
    /\ _current_step_index' = progress_cursor(status)
    /\ stepSignals' = stepSignals \cup progress_signals(status)
    /\ emitted' = progress_emits(status)
    /\ UNCHANGED workers
    /\ last' = Quiet
    /\ UNCHANGED <<_approval_event, _approval_result, _approval_notes,
                   _question_event, _question_answer, _current_worker,
                   _mcp_toolsets, _pending_plan, _executing_plan,
                   workerFrame, ledger, eventsSet, mainQueue, clock, gate>>

\* orchestrator_agent.run returns
AgentReturn(w, result) ==
    /\ At(w, "agent")
    /\ workers' = [workers EXCEPT ![w].result = result, ![w].pc = "complete"]
    /\ emitted' = <<>>
    /\ last' = Quiet
    /\ UNCHANGED <<coordVars, workerFrame, ledger, eventsSet, mainQueue, clock,
                   stepSignals, gate>>

\* orchestrator_agent.run raises: the first invocation is inside the inner
\* try (line 214), the retry is inside its except block (line 229)
AgentRaise(w, e) ==
    /\ At(w, "agent")
    /\ workers' =
         IF workers[w].invocations = 1
         THEN [workers EXCEPT ![w].mcp_exc = e, ![w].pc = "except"]
         ELSE [workers EXCEPT ![w].exc = e, ![w].pc = "outer_except"]
    /\ emitted' = <<>>
    /\ last' = Quiet
    /\ UNCHANGED <<coordVars, workerFrame, ledger, eventsSet, mainQueue, clock,
                   stepSignals, gate>>

\* a handler that retries whatever the first invocation raised
retries_always(w) == TRUE

\* _run_orchestrator, line 222
retries(w) ==
    Len(workers[w].servers) > 0 /\ _is_mcp_error(Raised(workers[w].mcp_exc))

\* a retry that is handed the tool servers of the first invocation
retry_with_servers(servers) == servers

\* _run_orchestrator, lines 229-233: the retry is invoked without toolsets
retry_toolsets(servers) == <<>>

\* a retry the researcher is not told about
retry_progress_silent == <<>>

\* _run_orchestrator, lines 224-227: the notification sent before the retry
retry_progress == progress_emits("MCP Unavailable")

\* _run_orchestrator, lines 221-235
Except(w) ==
    /\ At(w, "except")
    /\ IF retries(w)
       THEN /\ emitted' = retry_progress
            /\ _mcp_toolsets' = MCPToolsets
            /\ workers' = [workers EXCEPT
                              ![w].toolsets = retry_toolsets(workers[w].servers),
                              ![w].invocations = 2,
                              ![w].pc = "agent"]
            /\ last' = Quiet
       ELSE /\ emitted' = <<>>
            /\ workers' = [workers EXCEPT ![w].exc = workers[w].mcp_exc,
                                          ![w].pc = "outer_except"]
            /\ last' = Quiet
            /\ UNCHANGED _mcp_toolsets
    /\ UNCHANGED <<_approval_event, _approval_result, _approval_notes,
                   _question_event, _question_answer, _current_worker,
                   _pending_plan, _executing_plan, _current_step_index,
                   workerFrame, ledger, eventsSet, mainQueue, clock,
                   stepSignals, gate>>

\* _run_orchestrator, line 254: which exceptions the handler catches
handler_catches(e) == IsException(e)

\* a thread body that catches ordinary exceptions only
run_catches_exceptions(e) == IsException(e)

\* AgentWorker.run, line 106: except BaseException catches whatever is raised
run_catches(e) == TRUE

\* _run_orchestrator, lines 254-257; then asyncio.run closes the loop and
\* re-raises to AgentWorker.run, line 106
OuterExcept(w) ==
    /\ At(w, "outer_except")
    /\ IF handler_catches(workers[w].exc)
       THEN /\ clock' \in Later(clock)
            /\ ledger' = commit([ledger EXCEPT
                                    ![workers[w].run] = fail(@, str(workers[w].exc), clock)])
            /\ last' = Quiet
       ELSE /\ last' = Quiet
            /\ UNCHANGED <<ledger, clock>>
    /\ workers' = [workers EXCEPT
                      ![w].loopState = "closed",
                      ![w].pc = IF run_catches(workers[w].exc) THEN "emit_error" ELSE "exit",
                      ![w].mcp_exc = "none"]
    /\ emitted' = <<>>
    /\ UNCHANGED <<coordVars, workerFrame, eventsSet, mainQueue, stepSignals, gate>>

\* _run_orchestrator, lines 238-252, then asyncio.run closes the loop
CompleteRun(w) ==
    /\ At(w, "complete")
    /\ clock' \in Later(clock)
    /\ ledger' = commit([ledger EXCEPT ![workers[w].run] = complete(@, clock)])
    /\ workers' = [workers EXCEPT ![w].loopState = "closed", ![w].pc = "emit_finished",
                                  ![w].mcp_exc = "none"]
    /\ emitted' = <<>>
    /\ last' = Quiet
    /\ UNCHANGED <<coordVars, workerFrame, eventsSet, mainQueue, stepSignals, gate>>

\* _run_orchestrator, lines 238-252: agent_run.complete has marked the
\* record when result.usage() or db_session.commit() raises
CompleteRaise(w, e) ==
    /\ At(w, "complete")
    /\ IsException(e)
    /\ clock' \in Later(clock)
    /\ ledger' = [ledger EXCEPT ![workers[w].run] = complete(@, clock)]
    /\ workers' = [workers EXCEPT ![w].exc = e, ![w].pc = "outer_except",
                                  ![w].result = NoResult]
    /\ emitted' = <<>>
    /\ last' = Quiet
    /\ UNCHANGED <<coordVars, workerFrame, eventsSet, mainQueue, stepSignals, gate>>

QueuedSignal(signal, w, result, error) ==
    [signal |-> signal, worker |-> w, result |-> result, error |-> error]

\* AgentWorker.run, line 105
EmitFinished(w) ==
    /\ At(w, "emit_finished")
    /\ mainQueue' = Append(mainQueue, QueuedSignal("finished", w, workers[w].result, <<>>))
    /\ workers' = [workers EXCEPT ![w].pc = "exit", ![w].result = NoResult,
                                  ![w].signals = @ \cup {"finished"}]
    /\ emitted' = <<>>
    /\ last' = Quiet
    /\ UNCHANGED <<coordVars, workerFrame, ledger, eventsSet, clock, stepSignals, gate>>

\* AgentWorker.run, lines 106-107
EmitError(w) ==
    /\ At(w, "emit_error")
    /\ mainQueue' = Append(mainQueue, QueuedSignal("error", w, NoResult, _format_error(workers[w].exc)))
    /\ workers' = [workers EXCEPT ![w].pc = "exit", ![w].exc = "none",
                                  ![w].signals = @ \cup {"error"}]
    /\ emitted' = <<>>
    /\ last' = Quiet
    /\ UNCHANGED <<coordVars, workerFrame, ledger, eventsSet, clock, stepSignals, gate>>

\* AgentWorker.run returns and the thread ends
ThreadExit(w) ==
    /\ At(w, "exit")
    /\ workers' = [workers EXCEPT ![w] = Ended(@, "done")]
    /\ emitted' = <<>>
    /\ last' = Quiet
    /\ UNCHANGED <<coordVars, workerFrame, ledger, eventsSet, mainQueue, clock,
                   stepSignals, gate>>

\* ------------------------------------------------ worker: the two gates
gateFrame == <<_current_worker, _mcp_toolsets, _pending_plan, _executing_plan,
               _current_step_index, config, dataVars, ledger, mainQueue, clock, fg,
               responses, stepSignals>>

\* _request_approval, lines 271-272
RequestApproval(w) ==
    /\ At(w, "agent")
    /\ nextEvent < MaxGates
    /\ nextEvent' = nextEvent + 1
    /\ _approval_event' = nextEvent + 1
    /\ _approval_result' = FALSE
    /\ workers' = [workers EXCEPT ![w].pc = "approval_emit"]
    /\ gate' = [NoGate EXCEPT !.kind = "approval", !.worker = w, !.event = nextEvent + 1]
    /\ emitted' = <<>>
    /\ last' = Quiet
    /\ UNCHANGED <<_approval_notes, _question_event, _question_answer,
                   gateFrame, eventsSet>>

\* _request_approval, lines 275-276
ApprovalEmit(w) ==
    /\ At(w, "approval_emit")
    /\ workers' = [workers EXCEPT ![w].pc = "approval_wait"]
    /\ gate' = [gate EXCEPT !.notified = TRUE]
    /\ emitted' = <<Signal("approval_requested", "<action>", "<details>"),
                    Signal("status_changed", "waiting", "Approval")>>
    /\ last' = Quiet
    /\ UNCHANGED <<_approval_event, _approval_result, _approval_notes,
                   _question_event, _question_answer, gateFrame, eventsSet,
                   nextEvent>>

\* _request_approval, lines 281-282
approval_returns(w) ==
    /\ workers' = [workers EXCEPT ![w].pc = "agent", ![w].event = 0]
    /\ gate' = [gate EXCEPT !.returned = TRUE, !.retApproved = _approval_result,
                            !.retNotes = _approval_notes]
    /\ emitted' = <<Signal("status_changed", "running", "Orchestrator")>>

\* _request_approval, line 279: the coroutine reaches the await
ApprovalAwait(w) ==
    /\ At(w, "approval_wait")
    /\ IF _approval_event \in eventsSet
       THEN /\ approval_returns(w)
            /\ last' = Quiet
       ELSE /\ workers' = [workers EXCEPT ![w].pc = "approval_suspended",
                                          ![w].event = _approval_event]
            /\ emitted' = <<>>
            /\ last' = Quiet
            /\ UNCHANGED gate
    /\ UNCHANGED <<_approval_event, _approval_result, _approval_notes,
                   _question_event, _question_answer, gateFrame, eventsSet,
                   nextEvent>>

\* _request_approval, line 279: the event was set and the waiter resumes
ApprovalResume(w) ==
    /\ At(w, "approval_suspended")
    /\ workers[w].event \in eventsSet
    /\ approval_returns(w)
    /\ last' = Quiet
    /\ UNCHANGED <<_approval_event, _approval_result, _approval_notes,
                   _question_event, _question_answer, gateFrame, eventsSet,
                   nextEvent>>

\* _ask_question, lines 315-316
AskQuestion(w) ==
    /\ At(w, "agent")
    /\ nextEvent < MaxGates
    /\ nextEvent' = nextEvent + 1
    /\ _question_event' = nextEvent + 1
    /\ _question_answer' = ""
    /\ workers' = [workers EXCEPT ![w].pc = "question_emit"]
    /\ gate' = [NoGate EXCEPT !.kind = "question", !.worker = w, !.event = nextEvent + 1]
    /\ emitted' = <<>>
    /\ last' = Quiet
    /\ UNCHANGED <<_approval_event, _approval_result, _approval_notes,
                   gateFrame, eventsSet>>

\* _ask_question, lines 319-320
QuestionEmit(w) ==
    /\ At(w, "question_emit")
    /\ workers' = [workers EXCEPT ![w].pc = "question_wait"]
    /\ gate' = [gate EXCEPT !.notified = TRUE]
    /\ emitted' = <<Signal("question_asked", "<question>", "<options>"),
                    Signal("status_changed", "waiting", "Your response")>>
    /\ last' = Quiet
    /\ UNCHANGED <<_approval_event, _approval_result, _approval_notes,
                   _question_event, _question_answer, gateFrame, eventsSet,
                   nextEvent>>

\* a question that returns the value the request was initialised with
question_result_initial == ""

\* _ask_question, line 326: the value returned
question_result == _question_answer

\* _ask_question, lines 325-326
question_returns(w) ==
    /\ workers' = [workers EXCEPT ![w].pc = "agent", ![w].event = 0]
    /\ gate' = [gate EXCEPT !.returned = TRUE, !.retAnswer = question_result]
    /\ emitted' = <<Signal("status_changed", "running", "Orchestrator")>>

\* _ask_question, line 323: the coroutine reaches the await
QuestionAwait(w) ==
    /\ At(w, "question_wait")
    /\ IF _question_event \in eventsSet
       THEN /\ question_returns(w)
            /\ last' = Quiet
       ELSE /\ workers' = [workers EXCEPT ![w].pc = "question_suspended",
                                          ![w].event = _question_event]
            /\ emitted' = <<>>
            /\ last' = Quiet
            /\ UNCHANGED gate
    /\ UNCHANGED <<_approval_event, _approval_result, _approval_notes,
                   _question_event, _question_answer, gateFrame, eventsSet,
                   nextEvent>>

\* _ask_question, line 323: the event was set and the waiter resumes
QuestionResume(w) ==
    /\ At(w, "question_suspended")
    /\ workers[w].event \in eventsSet
    /\ question_returns(w)
    /\ last' = Quiet
    /\ UNCHANGED <<_approval_event, _approval_result, _approval_notes,
                   _question_event, _question_answer, gateFrame, eventsSet,
                   nextEvent>>

\* the worker's loop runs a callback scheduled by call_soon_threadsafe; it
\* does so only while the coroutine is suspended in an await
Suspended(w) ==
    workers[w].pc \in {"agent", "approval_suspended", "question_suspended"}

LoopCallback(w, ev) ==
    /\ w \in DOMAIN workers
    /\ isRunning(w)
    /\ Suspended(w)
    /\ ev \in workers[w].callbacks
    /\ eventsSet' = eventsSet \cup {ev}
    /\ workers' = [workers EXCEPT ![w].callbacks = @ \ {ev}]
    /\ emitted' = <<>>
    /\ last' = Quiet
    /\ UNCHANGED <<coordVars, config, dataVars, ledger, nextEvent, mainQueue, clock, fg,
                   responses, stepSignals, gate>>

\* ------------------------------------------------------- specifications
\* the statements of _run_orchestrator and AgentWorker.run around the agent
RunSteps(w) ==
    \/ WorkerStart(w)
    \/ Provision(w)
    \/ BeginRun(w)
    \/ Invoke(w)
    \/ \E result \in Results : AgentReturn(w, result)
    \/ CompleteRun(w)
    \/ EmitFinished(w)
    \/ ThreadExit(w)

\* the agent fails or reports progress
FailureSteps(w) ==
    \/ \E status \in ProgressLabels : AgentProgress(w, status)
    \/ \E e \in ExcClasses : AgentRaise(w, e)
    \/ Except(w)
    \/ OuterExcept(w)
    \/ EmitError(w)

\* the agent raises a gate request
GateSteps(w) ==
    \/ RequestApproval(w)
    \/ ApprovalEmit(w)
    \/ ApprovalAwait(w)
    \/ ApprovalResume(w)
    \/ AskQuestion(w)
    \/ QuestionEmit(w)
    \/ QuestionAwait(w)
    \/ QuestionResume(w)
    \/ \E ev \in 1..MaxGates : LoopCallback(w, ev)

\* the researcher decides a plan that is proposed
DecideProposedPlan(approved, notes) ==
    /\ _pending_plan # NoPlan
    /\ HandleApprovalResponse(approved, notes)

\* The run driver and the plan tracker: runs that complete, propose plans,
\* fail, are retried and are stopped; the researcher answers plan proposals.
Next ==
    \/ \E p \in Prompts : RunAsync(p)
    \/ Stop
    \/ \E r \in ApprovalResponses : DecideProposedPlan(r[1], r[2])
    \/ DecidePlan
    \/ DeliverSignal
    \/ \E w \in DOMAIN workers : RunSteps(w) \/ FailureSteps(w)

Spec == Init /\ [][Next]_vars

\* The human-interaction gate: runs that raise approval requests and
\* questions and complete; the researcher calls the response handlers at
\* any time.
NextGate ==
    \/ \E p \in Prompts : RunAsync(p)
    \/ \E a \in Answers : HandleQuestionResponse(a)
    \/ QuestionWake
    \/ \E r \in ApprovalResponses : HandleApprovalResponse(r[1], r[2])
    \/ DecidePlan
    \/ ApprovalWake
    \/ DeliverSignal
    \/ \E w \in DOMAIN workers : RunSteps(w) \/ GateSteps(w)

\* The session when the gate is exercised: a first run has proposed a plan
\* that the researcher has not decided yet (run_async, the statements of
\* RunSteps and _on_agent_finished have acted).  Declining it gives the
\* session without a proposed plan.
FirstRun ==
    [Ended(AgentWorker(<<"p1">>), "done") EXCEPT
        !.loop = 1, !.loopState = "closed", !.signals = {"finished"}]

InitGate ==
    /\ _approval_event = 0
    /\ _approval_result = FALSE
    /\ _approval_notes = ""
    /\ _question_event = 0
    /\ _question_answer = ""
    /\ _executing_plan = NoPlan
    /\ _current_step_index = -1
    /\ config = [npx_available |-> TRUE, brave_api_key |-> TRUE]
    /\ eventsSet = {}
    /\ nextEvent = 0
    /\ mainQueue = <<>>
    /\ fg = FgIdle
    /\ responses = 0
    /\ emitted = <<>>
    /\ last = Quiet
    /\ stepSignals = {}
    /\ gate = NoGate
    /\ approvals = <<>>
    /\ files = {}
    /\ returned = NoCall
    /\ _pending_plan \in Plans
    /\ _current_worker = 1
    /\ _mcp_toolsets = create_mcp_toolsets(TRUE, TRUE)
    /\ workers = <<FirstRun>>
    /\ ledger = commit(<<complete(AgentRun(<<"p1">>, 1, 0), 1)>>)
    /\ clock = 2

SpecGate == InitGate /\ [][NextGate]_vars

\* every way a run fails
AnyFailureSteps(w) ==
    \/ \E status \in ProgressLabels : AgentProgress(w, status)
    \/ \E e \in FailureClasses : AgentRaise(w, e)
    \/ \E e \in {"ValueError"} : CompleteRaise(w, e)
    \/ Except(w)
    \/ OuterExcept(w)
    \/ EmitError(w)

\* The failure paths of the run driver: runs that complete or fail with
\* every class of failure, at the first invocation, at the retry or after
\* the record was marked completed; no run is stopped.
NextFail ==
    \/ \E p \in Prompts : RunAsync(p)
    \/ DeliverSignal
    \/ \E w \in DOMAIN workers : RunSteps(w) \/ AnyFailureSteps(w)

SpecFail == Init /\ [][NextFail]_vars

\* ------------------------------ _send_progress beside the foreground
\* _send_progress runs in the worker's thread and shares _executing_plan
\* and _current_step_index with the slots of the foreground thread, without
\* a lock: the foreground may write both between the test of line 295 and
\* the statements that follow it.  Lines 291-296 of a 'Delegating' event
\* that finds a plan executing: the two notifications, the test, and the
\* plan's steps read into the local variable
ProgressTest(w) ==
    /\ At(w, "agent")
    /\ _executing_plan # NoPlan
    /\ _current_step_index < Len(_executing_plan.steps) - 1 + MaxOvershoot
    /\ workers' = [workers EXCEPT ![w].pc = "progress",
                                  ![w].steps = _executing_plan.steps]
    /\ emitted' = <<Signal("message_received", "Assistant", "Delegating"),
                    Signal("history_entry", "Delegating", "running")>>
    /\ last' = Quiet
    /\ UNCHANGED <<coordVars, workerFrame, ledger, eventsSet, mainQueue, clock,
                   stepSignals, gate>>

\* _send_progress, lines 298-303: the cursor as it is now, against the
\* steps read before
ProgressAdvance(w) ==
    /\ At(w, "progress")
    /\ LET steps == workers[w].steps
           previous == 0 <= _current_step_index /\ _current_step_index < Len(steps)
           next == _current_step_index + 1 < Len(steps)
       IN /\ _current_step_index' = _current_step_index + 1
          /\ emitted' =
                (IF previous
                 THEN <<Signal("step_status_changed", ToString(_current_step_index), "completed")>>
                 ELSE <<>>)
                \o (IF next
                    THEN <<Signal("step_status_changed", ToString(_current_step_index + 1), "running")>>
                    ELSE <<>>)
          /\ stepSignals' = stepSignals
                \cup (IF previous THEN {<<_current_step_index, "completed">>} ELSE {})
                \cup (IF next THEN {<<_current_step_index + 1, "running">>} ELSE {})
    /\ workers' = [workers EXCEPT ![w].pc = "agent", ![w].steps = <<>>]
    /\ last' = Quiet
    /\ UNCHANGED <<_approval_event, _approval_result, _approval_notes,
                   _question_event, _question_answer, _current_worker,
                   _mcp_toolsets, _pending_plan, _executing_plan,
                   workerFrame, ledger, eventsSet, mainQueue, clock, gate>>

\* The session once the researcher has approved a proposed plan: the run
\* that proposed it is over and its record is in the ledger, the plan is
\* executing and the worker of the execution run has been started
\* (handle_approval_response, _execute_plan and run_async have acted).
InitRace ==
    /\ _approval_event = 0
    /\ _approval_result = TRUE
    /\ _approval_notes = "ok"
    /\ _question_event = 0
    /\ _question_answer = ""
    /\ _pending_plan = NoPlan
    /\ _executing_plan \in Plans
    /\ _current_step_index = -1
    /\ config = [npx_available |-> TRUE, brave_api_key |-> TRUE]
    /\ eventsSet = {}
    /\ nextEvent = 0
    /\ mainQueue = <<>>
    /\ fg = FgIdle
    /\ responses = 1
    /\ emitted = <<PlanApprovedNotice, RunningStatus, Signal("task_changed", "<prompt>", "")>>
    /\ last = Quiet
    /\ stepSignals = {}
    /\ gate = NoGate
    /\ approvals = <<>>
    /\ files = {}
    /\ returned = NoCall
    /\ _current_worker = 1
    /\ _mcp_toolsets = create_mcp_toolsets(TRUE, TRUE)
    /\ workers = <<AgentWorker(execution_prompt(_executing_plan, "ok"))>>
    /\ ledger = commit(<<complete(AgentRun(<<"p1">>, 0, 0), 1)>>)
    /\ clock = 2

\* Plan execution with _send_progress taken statement by statement: runs
\* that report delegations and complete, the next prompt submitted while
\* the signal of the execution run is still queued.
NextRace ==
    \/ \E p \in Prompts : RunAsync(p)
    \/ DeliverSignal
    \/ \E w \in DOMAIN workers :
           RunSteps(w) \/ ProgressTest(w) \/ ProgressAdvance(w)

SpecRace == InitRace /\ [][NextRace]_vars

\* ------------------------------------------------ failing ledger writes
\* _run_orchestrator, lines 188-196: db_session.commit() raises. The lines
\* are outside the try of line 198: the record stays uncommitted in the
\* session, the exception leaves the coroutine, asyncio.run closes the loop
\* and AgentWorker.run catches it (line 106)
BeginRaise(w) ==
    /\ At(w, "begin")
    /\ clock' \in Later(clock)
    /\ ledger' = Append(ledger, AgentRun(workers[w].prompt, w, clock))
    /\ workers' = [workers EXCEPT ![w].run = Len(ledger) + 1,
                                  ![w].exc = DatabaseError,
                                  ![w].loopState = "closed",
                                  ![w].pc = "emit_error"]
    /\ emitted' = <<>>
    /\ last' = Quiet
    /\ UNCHANGED <<coordVars, workerFrame, eventsSet, mainQueue, stepSignals, gate>>

\* _run_orchestrator, lines 255-256: agent_run.fail has marked the record
\* when db_session.commit() raises inside the handler; the new exception
\* replaces the one handled and leaves the coroutine
OuterExceptRaise(w) ==
    /\ At(w, "outer_except")
    /\ handler_catches(workers[w].exc)
    /\ clock' \in Later(clock)
    /\ ledger' = [ledger EXCEPT
                     ![workers[w].run] = fail(@, str(workers[w].exc), clock)]
    /\ workers' = [workers EXCEPT ![w].exc = DatabaseError,
                                  ![w].loopState = "closed",
                                  ![w].pc = "emit_error",
                                  ![w].mcp_exc = "none"]
    /\ emitted' = <<>>
    /\ last' = Quiet
    /\ UNCHANGED <<coordVars, workerFrame, eventsSet, mainQueue, stepSignals, gate>>

LedgerFailureSteps(w) ==
    \/ BeginRaise(w)
    \/ CompleteRaise(w, DatabaseError)
    \/ \E e \in {"ValueError"} : AgentRaise(w, e)
    \/ Except(w)
    \/ OuterExcept(w)
    \/ OuterExceptRaise(w)
    \/ EmitError(w)

\* The ledger under failing writes: runs whose begin, complete or fail
\* write is refused by the database, next to runs that complete and runs
\* whose agent fails.
NextLedger ==
    \/ \E p \in Prompts : RunAsync(p)
    \/ DeliverSignal
    \/ \E w \in DOMAIN workers : RunSteps(w) \/ LedgerFailureSteps(w)

SpecLedger == Init /\ [][NextLedger]_vars

\* ------------------------------------------------- the approvals table
\* models/approval.py, lines 15-22: a row as the constructor leaves it;
\* "None" stands for a column that is NULL, -1 for a NULL timestamp
Approval(agent_run_id) ==
    [agent_run_id |-> agent_run_id, decision |-> "None",
     researcher_notes |-> "None", decided_at |-> -1]

\* the notes argument of approve and deny
NoteArgs == {"None", "", "ok", "changed"}

\* `if notes:` is false for None and for the empty string
notes_given(notes) == notes \notin {"None", ""}

approve(a, notes, now) ==
    [a EXCEPT !.decision = "True", !.decided_at = now,
              !.researcher_notes = IF notes_given(notes) THEN notes ELSE @]

deny(a, notes, now) ==
    [a EXCEPT !.decision = "False", !.decided_at = now,
              !.researcher_notes = IF notes_given(notes) THEN notes ELSE @]

dataFrame == <<coordVars, config, workers, ledger, eventsSet, nextEvent,
               mainQueue, fg, responses, emitted, last, stepSignals, gate>>

\* Approval(agent_run_id=..., action_description=...) is added to the session
AddApproval(run) ==
    /\ Len(approvals) < MaxApprovals
    /\ approvals' = Append(approvals, Approval(run))
    /\ UNCHANGED <<dataFrame, clock, files, returned>>

Approve(i, notes) ==
    /\ i \in DOMAIN approvals
    /\ clock < MaxDecisions
    /\ clock' \in Later(clock)
    /\ approvals' = [approvals EXCEPT ![i] = approve(@, notes, clock')]
    /\ UNCHANGED <<dataFrame, files, returned>>

Deny(i, notes) ==
    /\ i \in DOMAIN approvals
    /\ clock < MaxDecisions
    /\ clock' \in Later(clock)
    /\ approvals' = [approvals EXCEPT ![i] = deny(@, notes, clock')]
    /\ UNCHANGED <<dataFrame, files, returned>>

\* The approvals table on its own: rows are created and their methods
\* approve and deny are called in any order.
NextApprovals ==
    \/ AddApproval(1)
    \/ \E i \in 1..MaxApprovals, notes \in NoteArgs : Approve(i, notes)
    \/ \E i \in 1..MaxApprovals, notes \in NoteArgs : Deny(i, notes)

SpecApprovals == Init /\ [][NextApprovals]_vars

\* ------------------------------------------------ the workspace manager
\* services/workspace_manager.py.  A path is the sequence of its components
\* below base_path; a text is a sequence of characters, of which the line
\* feed "LF" and the carriage return "CR" are told apart from the others.
ProjectNames == {<<"T", " ", "P">>, <<"T", "/", "P">>}

\* create_workspace, line 32: the characters kept as they are
kept_in_name == {"T", "P", ".", "_", "-", " "}

\* create_workspace, lines 32-33, for a name without blanks at its ends
RECURSIVE safe_name(_)
safe_name(project_name) ==
    IF project_name = <<>>
    THEN ""
    ELSE (IF Head(project_name) \notin kept_in_name \/ Head(project_name) = " "
          THEN "_" ELSE Head(project_name))
         \o safe_name(Tail(project_name))

\* create_workspace, lines 36-37: the timestamp has the resolution of a second
workspace_name(project_name, now) == safe_name(project_name) \o "_" \o ToString(now)

Directory(path) == [path |-> path, kind |-> "dir", bytes |-> <<>>]

File(path, bytes) == [path |-> path, kind |-> "file", bytes |-> bytes]

is_dir(path) == Directory(path) \in files

is_file(path) == \E f \in files : f.path = path /\ f.kind = "file"

\* Path.mkdir(parents=True, exist_ok=True)
mkdir(path) == {Directory(SubSeq(path, 1, k)) : k \in 1..Len(path)}

\* list_workspaces, line 72
list_workspaces == {f.path : f \in {g \in files : g.kind = "dir" /\ Len(g.path) = 1}}

Filenames == {"test.txt", "nested.txt"}

Subdirectories == {<<>>, <<"deep", "nested">>}

Contents ==
    {<<"H", "i">>, <<"a", "LF", "b">>, <<"a", "CR", "LF", "b">>, <<"a", "CR">>}

\* os.linesep of a POSIX platform
linesep == <<"LF">>

\* Path.write_text(content, encoding="utf-8"), line 156: text mode with
\* newline=None writes os.linesep for every line feed
RECURSIVE write_text(_)
write_text(content) ==
    IF content = <<>>
    THEN <<>>
    ELSE (IF Head(content) = "LF" THEN linesep ELSE <<Head(content)>>)
         \o write_text(Tail(content))

\* Path.read_text(encoding="utf-8"), line 127: text mode with newline=None
\* reads "CR LF" and a lone "CR" as one line feed
RECURSIVE read_text(_)
read_text(bytes) ==
    IF bytes = <<>>
    THEN <<>>
    ELSE IF Head(bytes) = "CR"
    THEN <<"LF">> \o read_text(IF Len(bytes) > 1 /\ bytes[2] = "LF"
                               THEN Tail(Tail(bytes)) ELSE Tail(bytes))
    ELSE <<Head(bytes)>> \o read_text(Tail(bytes))

storeFrame == <<dataFrame, approvals>>

\* create_workspace, lines 22-47; datetime.now() is the second of the call
CreateWorkspace(project_name) ==
    /\ clock' \in {clock} \cup Later(clock)
    /\ LET workspace_path == <<workspace_name(project_name, clock')>>
       IN /\ workspace_path \in list_workspaces \/
                Cardinality(list_workspaces) < MaxWorkspaces
          /\ files' = files \cup mkdir(workspace_path)
                            \cup {Directory(workspace_path \o <<sub>>) :
                                     sub \in {"documents", "drafts", "exports"}}
          /\ returned' = Call("create_workspace", project_name, workspace_path, <<>>)
    /\ UNCHANGED storeFrame

\* write_document, lines 150-157
WriteDocument(workspace_path, filename, content, subdirectory) ==
    /\ workspace_path \in list_workspaces
    /\ LET path == workspace_path \o subdirectory
           file_path == path \o <<filename>>
       IN /\ is_file(file_path) \/
                Cardinality({f \in files : f.kind = "file"}) < MaxDocuments
          /\ files' = ({f \in files : f.path # file_path}
                           \cup (IF subdirectory # <<>> THEN mkdir(path) ELSE {}))
                        \cup {File(file_path, write_text(content))}
          /\ returned' = Call("write_document",
                              <<workspace_path, filename, content, subdirectory>>,
                              file_path, <<>>)
    /\ UNCHANGED <<storeFrame, clock>>

\* read_document, lines 124-130, of the path write_document returned
ReadDocument ==
    /\ returned.op = "write_document"
    /\ returned' =
         Call("read_document", returned.value,
              IF is_file(returned.value)
              THEN read_text((CHOOSE f \in files : f.path = returned.value).bytes)
              ELSE <<"None">>,
              returned.arg[3])
    /\ UNCHANGED <<storeFrame, clock, files>>

\* The workspace manager on its own: workspaces are created and documents
\* are written and read back.
NextWorkspace ==
    \/ \E project_name \in ProjectNames : CreateWorkspace(project_name)
    \/ \E workspace_path \in list_workspaces, filename \in Filenames,
          content \in Contents, subdirectory \in Subdirectories :
           WriteDocument(workspace_path, filename, content, subdirectory)
    \/ ReadDocument

SpecWorkspace == Init /\ [][NextWorkspace]_vars

\* ------------------------------------------- functions called directly
\* agents/orchestrator.py: PlanStep and TaskPlan objects; a dict is a
\* sequence of <<key, value>> pairs in the order of the fields
\* the inputs of a step: given for the project manager, left to the
\* default for the other agents
StepInputs(agent) ==
    IF agent = "project_manager" THEN << <<"task", "estimate costs">> >> ELSE <<>>

PlanStepObjects ==
    {[description |-> "desc " \o a, agent |-> a, requires_approval |-> r,
      inputs |-> StepInputs(a)] :
        a \in {SubAgents[k] : k \in DOMAIN SubAgents}, r \in BOOLEAN}

RECURSIVE SeqsUpTo(_, _)
SeqsUpTo(S, n) ==
    IF n = 0
    THEN {<<>>}
    ELSE SeqsUpTo(S, n - 1)
         \cup {Append(q, x) : q \in {t \in SeqsUpTo(S, n - 1) : Len(t) = n - 1}, x \in S}

TaskPlanObjects ==
    {[goal |-> "goal", steps |-> q,
      estimated_agents |-> [k \in DOMAIN q |-> q[k].agent]] :
        q \in SeqsUpTo(PlanStepObjects, MaxSteps)}

Has(dict, key) == \E k \in DOMAIN dict : dict[k][1] = key

Get(dict, key) == dict[CHOOSE k \in DOMAIN dict : dict[k][1] = key][2]

\* a dump that leaves the approval flag of a step out
model_dump_step_flagless(st) ==
    << <<"description", st.description>>, <<"agent", st.agent>>,
       <<"inputs", st.inputs>> >>

\* BaseModel.model_dump of a PlanStep: every field, in declaration order
model_dump_step(st) ==
    << <<"description", st.description>>, <<"agent", st.agent>>,
       <<"requires_approval", st.requires_approval>>,
       <<"inputs", st.inputs>> >>

\* BaseModel.model_dump of a TaskPlan (_on_agent_finished, line 387)
model_dump(plan) ==
    << <<"goal", plan.goal>>,
       <<"steps", [k \in DOMAIN plan.steps |-> model_dump_step(plan.steps[k])]>>,
       <<"estimated_agents", plan.estimated_agents>> >>

\* what validation answers when a required field is missing
ValidationError ==
    [goal |-> "<ValidationError>", steps |-> <<>>, estimated_agents |-> <<>>]

\* PlanStep(**dict): the fields without a default are required
step_is_valid(d) ==
    Has(d, "description") /\ Has(d, "agent") /\ Has(d, "requires_approval")

model_validate_step(d) ==
    [description |-> Get(d, "description"),
     agent |-> Get(d, "agent"),
     requires_approval |-> Get(d, "requires_approval"),
     inputs |-> IF Has(d, "inputs") THEN Get(d, "inputs") ELSE <<>>]

\* TaskPlan.model_validate(dict)
model_validate(dict) ==
    IF /\ Has(dict, "goal") /\ Has(dict, "steps") /\ Has(dict, "estimated_agents")
       /\ \A k \in DOMAIN Get(dict, "steps") : step_is_valid(Get(dict, "steps")[k])
    THEN [goal |-> Get(dict, "goal"),
          steps |-> [k \in DOMAIN Get(dict, "steps") |->
                        model_validate_step(Get(dict, "steps")[k])],
          estimated_agents |-> Get(dict, "estimated_agents")]
    ELSE ValidationError

callFrame == <<dataFrame, clock, approvals, files>>

ModelDump(plan) ==
    /\ returned' = Call("model_dump", plan, model_dump(plan), <<>>)
    /\ UNCHANGED callFrame

ModelValidate ==
    /\ returned.op = "model_dump"
    /\ returned' = Call("model_validate", returned.value,
                        model_validate(returned.value), returned.arg)
    /\ UNCHANGED callFrame

\* create_mcp_toolsets(workspace_path, npx_available) with BRAVE_API_KEY
\* set in the environment or not
CreateMcpToolsets(npx_available, brave_api_key) ==
    /\ returned' = Call("create_mcp_toolsets", <<npx_available, brave_api_key>>,
                        create_mcp_toolsets(npx_available, brave_api_key), <<>>)
    /\ UNCHANGED callFrame

\* the class of a leaf exception: one provisioning error, one that is none
LeafClasses == {"TimeoutError", "ValueError"}

\* exception objects nested up to a depth: a leaf, an exception chained to
\* a cause (raise ... from), a group of one or two members, and a group
\* that itself has a chained cause
RECURSIVE ExcTrees(_)
ExcTrees(depth) ==
    IF depth = 0
    THEN {Leaf(c) : c \in LeafClasses}
    ELSE LET below == ExcTrees(depth - 1)
             members == {<<t>> : t \in below} \cup {<<Leaf("ValueError"), t>> : t \in below}
             causes == {<<>>} \cup {<<Leaf(c)>> : c \in LeafClasses}
         IN below \cup {Exc("ValueError", <<>>, <<t>>) : t \in below}
                  \cup {Exc("ExceptionGroup", m, c) : m \in members, c \in causes}

IsMcpError(exc) ==
    /\ returned' = Call("_is_mcp_error", exc, _is_mcp_error(exc), <<>>)
    /\ UNCHANGED callFrame

\* The functions of the model and service layer that have no state, each
\* applied to every input of a bounded set.
NextFunctions ==
    \/ \E exc \in ExcTrees(MaxDepth) : IsMcpError(exc)
    \/ \E plan \in TaskPlanObjects : ModelDump(plan)
    \/ ModelValidate
    \/ \E npx_available \in BOOLEAN, brave_api_key \in BOOLEAN :
           CreateMcpToolsets(npx_available, brave_api_key)

SpecFunctions == Init /\ [][NextFunctions]_vars

\* ---------------------------------------------------------------- claims
Emits(signal) == \E i \in DOMAIN emitted : emitted[i] = signal

EmitsIn(signals, signal) == \E i \in DOMAIN signals : signals[i] = signal

\* the AgentRun records created by worker w
RunsOf(w) == {i \in DOMAIN ledger : ledger[i].worker = w}

\* C1: at most one background worker is running at any time; a run_async
\* call made while the current worker is running is answered with the
\* rejection notice and leaves that worker the only one running, and no
\* worker owns more than one AgentRun record.
C1_AtMostOneWorker ==
    /\ Cardinality(Running) <= 1
    /\ Running \subseteq {_current_worker}
    /\ \A w \in DOMAIN workers : Cardinality(RunsOf(w)) <= 1
    /\ Len(ledger) <= Len(workers)
    /\ Emits(RejectionNotice) => Running = {_current_worker}

C1_Witness ==
    /\ Emits(RejectionNotice)
    /\ Cardinality(Running) = 1
    /\ Len(workers) = 1

\* C2: every prompt accepted by run_async gets exactly one AgentRun record,
\* persisted as running before the agent is invoked; once the worker of the
\* prompt has ended, the record is completed or failed, persisted so, with
\* started_at <= completed_at.
C2_EveryRunSettles ==
    \A w \in DOMAIN workers :
        /\ Cardinality(RunsOf(w)) <= 1
        /\ workers[w].invocations >= 1 =>
               \E i \in RunsOf(w) : ledger[i].committed # "none"
        /\ workers[w].state # "running" =>
               \E i \in RunsOf(w) :
                   /\ ledger[i].status \in {"completed", "failed"}
                   /\ ledger[i].committed = ledger[i].status
                   /\ ledger[i].started_at <= ledger[i].completed_at

\* the wake of the outstanding gate request is under way: its event is
\* set or Event.set is scheduled on the loop of the requesting worker
WakePending ==
    \/ gate.event \in eventsSet
    \/ gate.event \in workers[gate.worker].callbacks

\* a response to the outstanding gate request has been handled completely
Answered(kind) ==
    /\ gate.kind = kind
    /\ gate.notified
    /\ gate.responses >= 1
    /\ fg.pc = "idle"
    /\ isRunning(gate.worker)

\* C3: once handle_approval_response(approved, notes) has been handled for
\* an approval request of the running agent, the suspended execution is
\* woken, and _request_approval returns approved with notes stored as the
\* approval notes.
C3_ApprovalResumes ==
    Answered("approval") =>
        IF gate.returned
        THEN gate.retApproved = gate.approved /\ gate.retNotes = gate.notes
        ELSE WakePending /\ _approval_result = gate.approved
                         /\ _approval_notes = gate.notes

\* C4: a response handled after the notification of a gate request and
\* before the coroutine has reached its wait is not lost: when the
\* coroutine reaches the wait, the wake of that wait is under way.
C4_NoLostResponse ==
    \A kind \in {"approval", "question"} :
        (Answered(kind) /\ ~gate.returned
            /\ workers[gate.worker].pc \in {"approval_wait", "question_wait"})
        => WakePending

\* C5: once handle_question_response(answer) has been handled for a question
\* of the running agent, the suspended execution is woken and _ask_question
\* returns that answer, an option or free text.
C5_QuestionResumes ==
    Answered("question") =>
        IF gate.returned
        THEN gate.retAnswer = gate.answer
        ELSE WakePending /\ question_result = gate.answer

C5_Witness ==
    /\ Answered("question")
    /\ gate.returned
    /\ gate.retAnswer = "free text"

\* the prompt holds the goal and, in plan order, each step's agent and
\* description
RECURSIVE StepsFrom(_, _, _, _)
StepsFrom(prompt, k, steps, i) ==
    IF i > Len(steps)
    THEN TRUE
    ELSE \E j \in k..(Len(prompt) - 1) :
            /\ prompt[j] = steps[i].agent
            /\ prompt[j + 1] = steps[i].description
            /\ StepsFrom(prompt, j + 2, steps, i + 1)

Embeds(prompt, plan_data) ==
    /\ \E j \in 1..(Len(prompt) - 1) :
           prompt[j] = "Goal:" /\ prompt[j + 1] = plan_data.goal
    /\ StepsFrom(prompt, 1, plan_data.steps, 1)

\* C6: approving a proposed plan starts exactly one re-execution run, whose
\* prompt holds the goal of the plan and every step's agent and description
\* in plan order.
C6_ApprovalStartsExecution ==
    Emits(PlanApprovedNotice) =>
        /\ Emits(RunningStatus)
        /\ ~Emits(RejectionNotice)
        /\ _current_worker = Len(workers)
        /\ workers[_current_worker].pc = "start"
        /\ Embeds(workers[_current_worker].prompt, _executing_plan)

\* C7: declining a proposed plan consumes the plan, starts no worker,
\* creates no AgentRun record and emits the completed status and the
\* cleared task description.
C7_DeclineFinalizes ==
    [][(/\ fg.pc = "approval_decide"
        /\ ~fg.approved
        /\ _pending_plan # NoPlan
        /\ fg'.pc = "idle")
       => /\ _pending_plan' = NoPlan
          /\ workers' = workers
          /\ _current_worker' = _current_worker
          /\ ledger' = ledger
          /\ _executing_plan' = _executing_plan
          /\ EmitsIn(emitted', CompletedStatus)
          /\ EmitsIn(emitted', TaskCleared)
          /\ ~EmitsIn(emitted', RunningStatus)]_vars

C7_Witness ==
    /\ Emits(PlanDeclinedNotice)
    /\ _pending_plan = NoPlan
    /\ Running = {}

\* C8: a run whose first invocation raised a provisioning error is retried
\* once, without tools, the coordinator's tool set being the empty set; when
\* the retry has succeeded the worker owns exactly one AgentRun record, of
\* its prompt, completed and persisted so.
C8_RetryOnceWithoutTools ==
    \A w \in DOMAIN workers :
        /\ workers[w].invocations <= 2
        /\ workers[w].invocations = 2 =>
              /\ workers[w].toolsets = <<>>
              /\ _mcp_toolsets = MCPToolsets
              /\ workers[w].pc = "emit_finished" =>
                    /\ Cardinality(RunsOf(w)) = 1
                    /\ \A i \in RunsOf(w) :
                          /\ ledger[i].prompt = workers[w].prompt
                          /\ ledger[i].status = "completed"
                          /\ ledger[i].committed = "completed"

C8_Witness ==
    \E w \in DOMAIN workers :
        /\ workers[w].invocations = 2
        /\ workers[w].pc = "emit_finished"
        /\ workers[w].servers = <<"filesystem", "web_search">>

\* C9: stop() on an active run terminates the worker and emits the idle
\* status, and no slot of the worker's finished or error signal runs for a
\* worker that stop() has terminated.
C9_NothingAfterStop ==
    /\ last.op = "stop" =>
          workers[last.worker].state = "terminated" /\ Emits(IdleStatus)
    /\ last.op \in {"_on_agent_finished", "_on_agent_error"} =>
          workers[last.worker].state # "terminated"

\* C10: when a plain-text completion is handled while a plan of N steps is
\* executing, a completed status has been signalled for every step index
\* 0..N-1, the executing plan is discarded and the cursor is reset.
C10_AllStepsCompleted ==
    (last.op = "_on_agent_finished" /\ last.n >= 0) =>
        /\ \A i \in 0..(last.n - 1) : <<i, "completed">> \in stepSignals
        /\ _executing_plan = NoPlan
        /\ _current_step_index = -1

C10_Witness ==
    /\ last.op = "_on_agent_finished"
    /\ last.n = MaxSteps
    /\ <<MaxSteps - 1, "running">> \in stepSignals
    /\ \E p \in Plans, n \in Notes :
           workers[last.worker].prompt = execution_prompt(p, n)

\* the slot of the error signal runs while a plan is executing
ErrorDuringPlan ==
    /\ fg.pc = "idle"
    /\ mainQueue # <<>>
    /\ Head(mainQueue).signal = "error"
    /\ mainQueue' = Tail(mainQueue)
    /\ _executing_plan # NoPlan

FailedSteps(signals) == {s \in signals : s[2] = "failed"}

\* C11 as stated: when the run executing an N-step plan fails after k
\* delegation events, 0 <= k < N, exactly one step is signalled failed, no
\* step after it has a status change and the executing plan is discarded.
C11_OneStepFailed ==
    [][(ErrorDuringPlan
          /\ 0 <= _current_step_index + 1
          /\ _current_step_index + 1 < Len(_executing_plan.steps))
       => /\ Cardinality(FailedSteps(stepSignals')) = 1
          /\ \A s \in stepSignals' : s[1] <= _current_step_index
          /\ _executing_plan' = NoPlan
          /\ _current_step_index' = -1]_vars

\* C11, amended: when the run executing an N-step plan fails after k
\* delegation events, step k-1 and no other is signalled failed if
\* 1 <= k <= N, no step is signalled failed if k = 0 or k > N, no step after
\* the cursor has a status change, and the executing plan is discarded and
\* the cursor reset.
C11_CurrentStepFailed ==
    [][ErrorDuringPlan
       => /\ FailedSteps(stepSignals') =
                IF /\ 1 <= _current_step_index + 1
                   /\ _current_step_index + 1 <= Len(_executing_plan.steps)
                THEN {<<_current_step_index, "failed">>}
                ELSE {}
          /\ \A s \in stepSignals' : s[1] <= _current_step_index
          /\ _executing_plan' = NoPlan
          /\ _current_step_index' = -1]_vars

C11_Witness ==
    /\ last.op = "_on_agent_error"
    /\ last.n = MaxSteps
    /\ FailedSteps(stepSignals) = {<<0, "failed">>}
    /\ <<1, "running">> \notin stepSignals

\* C12: the status of a Run record only moves from running to completed or
\* to failed, a completed or failed status never changes, output is set
\* exactly when the status is completed and error_message exactly when it is
\* failed, also when a statement after agent_run.complete() raises.
C12_RunRecordLifecycle ==
    [][/\ \A i \in DOMAIN ledger :
              ledger[i].status \in {"completed", "failed"}
                  => ledger'[i].status = ledger[i].status
       /\ \A i \in DOMAIN ledger' :
              /\ ledger'[i].status \in {"running", "completed", "failed"}
              /\ ledger'[i].output <=> ledger'[i].status = "completed"
              /\ ledger'[i].error_message <=> ledger'[i].status = "failed"]_vars

\* C13: the begin commit of a Run precedes the invocation of the agent, and
\* the commit of completed or failed precedes the finished or error signal
\* of the run: every signal queued for the foreground finds the record of
\* its run persisted in the matching status.
C13_LedgerBeforeNotification ==
    /\ \A w \in DOMAIN workers :
           workers[w].invocations >= 1 =>
               \E i \in RunsOf(w) : ledger[i].committed # "none"
    /\ \A k \in DOMAIN mainQueue :
           \E i \in RunsOf(mainQueue[k].worker) :
               ledger[i].committed =
                   IF mainQueue[k].signal = "finished" THEN "completed" ELSE "failed"

\* C16: whatever the agent invocation raises and the retry does not
\* recover, a BaseException that is no Exception included, the Run is marked
\* failed, with error message and end timestamp, before the error signal is
\* emitted.
C16_EveryFailureMarked ==
    \A w \in DOMAIN workers :
        At(w, "emit_error") =>
            /\ RunsOf(w) # {}
            /\ \A i \in RunsOf(w) :
                  /\ ledger[i].status = "failed"
                  /\ ledger[i].error_message
                  /\ ledger[i].completed_at >= ledger[i].started_at

\* C17: the agent is invoked a second time only after the first invocation
\* raised a provisioning-classified error; an authentication or generic
\* failure is not retried, and no prompt causes more than two invocations.
C17_RetryOnlyProvisioning ==
    \A w \in DOMAIN workers :
        /\ workers[w].invocations <= 2
        /\ workers[w].invocations = 2 =>
               workers[w].mcp_exc = "none" \/ _is_mcp_error(Raised(workers[w].mcp_exc))
        /\ (workers[w].invocations = 2 /\ workers[w].pc \in {"agent", "complete"}) =>
               _is_mcp_error(Raised(workers[w].mcp_exc))
        /\ (workers[w].mcp_exc # "none" /\ ~_is_mcp_error(Raised(workers[w].mcp_exc))) =>
               workers[w].invocations = 1

C17_Witness ==
    \E w \in DOMAIN workers :
        /\ workers[w].pc = "outer_except"
        /\ workers[w].mcp_exc = "AuthenticationError"
        /\ workers[w].exc = "AuthenticationError"
        /\ workers[w].invocations = 1

\* the error signals of worker w queued for the foreground
ErrorEntries(w) ==
    {k \in DOMAIN mainQueue :
        mainQueue[k].worker = w /\ mainQueue[k].signal = "error"}

\* C18: a failed run is reported once: its error signal is queued or has
\* been handled, never both and never twice, once its worker has ended it
\* is one of the two, and the handler emits exactly one chat message and
\* exactly one history entry with status failed.
C18_FailureReportedOnce ==
    /\ \A w \in DOMAIN workers :
          /\ Cardinality(ErrorEntries(w)) + workers[w].reported <= 1
          /\ (workers[w].state = "done"
                /\ \E i \in RunsOf(w) : ledger[i].status = "failed")
             => Cardinality(ErrorEntries(w)) + workers[w].reported = 1
    /\ last.op = "_on_agent_error" =>
          /\ Cardinality({i \in DOMAIN emitted :
                             emitted[i][1] = "message_received"}) = 1
          /\ Cardinality({i \in DOMAIN emitted :
                             emitted[i][1] = "history_entry"
                             /\ emitted[i][3] = "failed"}) = 1

C18_Witness ==
    /\ last.op = "_on_agent_error"
    /\ workers[last.worker].reported = 1
    /\ workers[last.worker].state = "done"
    /\ \E i \in RunsOf(last.worker) : ledger[i].status = "failed"

\* the text names the cause: by its traceback, its message or its class
Describes(text, e) ==
    \E j \in DOMAIN text : text[j] \in {format_exception(e), Message(e), e}

\* C19: when a run fails with an exception group, the text stored as the
\* error_message of its Run names every member of the group.
C19_SubCausesStored ==
    \A w \in DOMAIN workers :
        (At(w, "emit_error") /\ IsException(workers[w].exc)) =>
            \A i \in RunsOf(w) :
                \A k \in DOMAIN SubCauses(workers[w].exc) :
                    Describes(ledger[i].error_text, SubCauses(workers[w].exc)[k])

\* C20: a worker that is not stopped emits exactly one of the signals
\* finished and error, whatever the coroutine raises: none before run()
\* reaches its emit, never both, and one when the thread has ended.
C20_ExactlyOneSignal ==
    \A w \in DOMAIN workers :
        /\ Cardinality(workers[w].signals) <= 1
        /\ workers[w].state = "done" => Cardinality(workers[w].signals) = 1
        /\ (workers[w].state = "running" /\ workers[w].pc # "exit") =>
               workers[w].signals = {}

C20_Witness ==
    \E w \in DOMAIN workers :
        /\ workers[w].state = "done"
        /\ workers[w].signals = {"error"}
        /\ \E i \in RunsOf(w) : ledger[i].status = "running"

\* a running agent is inside _request_approval or _ask_question
GateWaiting ==
    \E w \in DOMAIN workers :
        /\ isRunning(w)
        /\ workers[w].pc \in {"approval_emit", "approval_wait", "approval_suspended",
                              "question_emit", "question_wait", "question_suspended"}

\* C14: a statement of handle_approval_response or handle_question_response
\* executed while no gate wait and no proposed plan is outstanding changes
\* no field of the coordinator, emits nothing and raises nothing.
C14_ResponseWithoutWaitIsNoOp ==
    [][(fg'.pc # fg.pc /\ ~GateWaiting /\ _pending_plan = NoPlan)
       => /\ coordVars' = coordVars
          /\ emitted' = <<>>
          /\ last'.op # "RuntimeError"]_vars

\* C15: a run_async call rejected because a run is active emits the System
\* notice and nothing else, and leaves the workers, the current worker, the
\* ledger, the tool set, the gate events and the queued signals unchanged;
\* called directly it leaves the proposed plan, the executing plan and the
\* cursor unchanged too, and called by _execute_plan (after the assignments
\* of lines 457-458) the notice is all that follows the caller's message.
C15_RejectionOnlyNotice ==
    [][(run_async_rejects /\ EmitsIn(emitted', RejectionNotice))
       => /\ workers' = workers
          /\ _current_worker' = _current_worker
          /\ ledger' = ledger
          /\ _mcp_toolsets' = _mcp_toolsets
          /\ _approval_event' = _approval_event
          /\ _question_event' = _question_event
          /\ eventsSet' = eventsSet
          /\ mainQueue' = mainQueue
          /\ IF fg.pc = "idle"
             THEN /\ emitted' = <<RejectionNotice>>
                  /\ coordVars' = coordVars
             ELSE emitted' = <<PlanApprovedNotice, RejectionNotice>>]_vars

C15_Witness ==
    /\ emitted = <<RejectionNotice>>
    /\ _pending_plan # NoPlan
    /\ Cardinality(Running) = 1

\* C21: every approval request a run raises at the gate has an Approval row
\* owned by that run, with decision pending until the researcher responds
\* and with the decision and the decided timestamp set once they have.
C21_ApprovalRecorded ==
    gate.kind = "approval" =>
        \E i \in DOMAIN approvals :
            /\ approvals[i].agent_run_id \in RunsOf(gate.worker)
            /\ IF gate.responses = 0
               THEN approvals[i].decision = "None"
               ELSE /\ approvals[i].decision = (IF gate.approved THEN "True" ELSE "False")
                    /\ approvals[i].decided_at # -1

\* C22: for every Approval row decided_at is set only if the decision is
\* non-null, and a row that approve() or deny() has decided is changed by
\* no later approve() or deny(): decision, notes and decided_at stay.
C22_DecidedIsImmutable ==
    [][/\ \A i \in DOMAIN approvals' :
              approvals'[i].decided_at # -1 => approvals'[i].decision # "None"
       /\ \A i \in DOMAIN approvals :
              approvals[i].decision # "None" => approvals'[i] = approvals[i]]_vars

\* C23: whenever create_mcp_toolsets returns, the filesystem connection is
\* present, the web-search connection is present only if the launcher is
\* available and a search credential is configured, and the email
\* connection is absent.
C23_FilesystemAlwaysPresent ==
    returned.op = "create_mcp_toolsets" =>
        /\ returned.value.filesystem
        /\ returned.value.web_search => (returned.arg[1] /\ returned.arg[2])
        /\ ~returned.value.email

\* C29: a TaskPlan dumped to its dict and validated back has the same goal
\* and the same steps in the same order, each with the same agent,
\* description and requires_approval flag.
C29_PlanRoundTrip ==
    returned.op = "model_validate" =>
        /\ returned.value.goal = returned.from.goal
        /\ Len(returned.value.steps) = Len(returned.from.steps)
        /\ \A k \in DOMAIN returned.from.steps :
               /\ returned.value.steps[k].agent = returned.from.steps[k].agent
               /\ returned.value.steps[k].description = returned.from.steps[k].description
               /\ returned.value.steps[k].requires_approval
                      = returned.from.steps[k].requires_approval

C29_Witness ==
    /\ returned.op = "model_validate"
    /\ Len(returned.from.steps) = MaxSteps
    /\ returned.from.steps[1].requires_approval
    /\ ~returned.from.steps[MaxSteps].requires_approval
    /\ returned.from.steps[1].agent # returned.from.steps[MaxSteps].agent
    /\ returned.value = returned.from

\* the statement of lines 181-185 is executed by some worker in this step
Provisioning ==
    \E w \in DOMAIN workers :
        At(w, "provision") /\ workers'[w].pc = "begin"

\* the retry path of lines 227-228 resets the tool set in this step
Resetting ==
    \E w \in DOMAIN workers :
        At(w, "except") /\ workers'[w].invocations = 2

\* C24: after a run hit a provisioning failure and the tool set was reset,
\* the next submitted run calls create_mcp_toolsets before it launches the
\* agent.  (With the launcher available only a reset leaves the coordinator
\* with the empty tool set, which is how the reset is recognised.)
C24_ReprovisionAfterReset ==
    [][(Provisioning /\ config.npx_available /\ _mcp_toolsets = MCPToolsets)
       => last'.op = "create_mcp_toolsets"]_vars

\* C25: once the coordinator holds a tool set no run calls
\* create_mcp_toolsets again: the set is never given up, and only the reset
\* of the retry path replaces it.
C25_ProvisionedOnce ==
    [][/\ last'.op = "create_mcp_toolsets" => _mcp_toolsets = NoToolsets
       /\ _mcp_toolsets # NoToolsets => _mcp_toolsets' # NoToolsets
       /\ (_mcp_toolsets # NoToolsets /\ ~Resetting)
              => _mcp_toolsets' = _mcp_toolsets]_vars

C25_Witness ==
    /\ Len(workers) = 2
    /\ At(2, "begin")
    /\ last.op # "create_mcp_toolsets"
    /\ _mcp_toolsets.filesystem
    /\ \E i \in RunsOf(1) : ledger[i].status = "completed"

\* the finished signal of the run that executes the approved plan is
\* delivered in this step, and its result is a structured plan
ReproposedPlan ==
    /\ fg.pc = "idle"
    /\ mainQueue # <<>>
    /\ mainQueue' = Tail(mainQueue)
    /\ Head(mainQueue).signal = "finished"
    /\ Head(mainQueue).result.kind = "plan"
    /\ _executing_plan # NoPlan
    /\ \E n \in Notes :
           workers[Head(mainQueue).worker].prompt = execution_prompt(_executing_plan, n)

\* C26: when the run that executes an approved plan ends with a structured
\* plan, that plan becomes the proposed plan and is announced for approval,
\* and it is no execution progress: no step status is signalled and the
\* executing plan and the cursor stay as they are.
C26_ReproposalIsNoProgress ==
    [][ReproposedPlan
       => /\ _pending_plan' = Head(mainQueue).result.plan
          /\ EmitsIn(emitted', Signal("plan_updated", Head(mainQueue).result.plan.goal, ""))
          /\ EmitsIn(emitted', Signal("approval_requested", "Execute this plan?",
                                      Head(mainQueue).result.plan.goal))
          /\ \A i \in DOMAIN emitted' : emitted'[i][1] # "step_status_changed"
          /\ stepSignals' = stepSignals
          /\ _executing_plan' = _executing_plan
          /\ _current_step_index' = _current_step_index]_vars

C26_Witness ==
    /\ last.op = "_on_agent_finished"
    /\ _executing_plan # NoPlan
    /\ _pending_plan # NoPlan
    /\ Emits(Signal("approval_requested", "Execute this plan?", _pending_plan.goal))
    /\ \E n \in Notes :
           workers[last.worker].prompt = execution_prompt(_executing_plan, n)

\* C27: whenever no run is active and every result of the last run has been
\* dispatched, no plan is held as executing and the step cursor is -1.
C27_NoPlanLeftExecuting ==
    (Running = {} /\ mainQueue = <<>> /\ fg.pc = "idle")
        => (_executing_plan = NoPlan /\ _current_step_index = -1)

\* the current worker has emitted its signal and the slot has handled it
Dispatched ==
    /\ _current_worker # 0
    /\ workers[_current_worker].signals # {}
    /\ mainQueue = <<>>
    /\ fg.pc = "idle"

\* C28: after the result or the error of a run has been dispatched to the
\* foreground, the next run_async call is accepted: it is not answered with
\* the rejection notice.
C28_IdleAfterDispatch ==
    [][Dispatched => ~EmitsIn(emitted', RejectionNotice)]_vars

\* C30: read_document of the path that write_document returned gives back
\* exactly the content that was written, for every workspace, filename and
\* subdirectory.
C30_DocumentRoundTrip ==
    returned.op = "read_document" => returned.value = returned.from

\* C31: every create_workspace call creates a workspace directory distinct
\* from all created before, so that each call adds one workspace to those
\* list_workspaces returns, with its documents, drafts and exports
\* subdirectories.
C31_WorkspacesAreDistinct ==
    [][(returned'.op = "create_workspace" /\ returned' # returned)
       => /\ returned'.value \notin list_workspaces
          /\ Cardinality({f.path : f \in {g \in files' : g.kind = "dir" /\ Len(g.path) = 1}})
                 = Cardinality(list_workspaces) + 1
          /\ \A sub \in {"documents", "drafts", "exports"} :
                 Directory(returned'.value \o <<sub>>) \in files']_vars

\* _send_progress is called with the label in this step
ProgressEvent(label) ==
    EmitsIn(emitted', Signal("history_entry", label, "running"))

StepStatus(i, status) == Signal("step_status_changed", ToString(i), status)

\* the step_status_changed signals among those emitted, in order
RECURSIVE StepStatusesOf(_)
StepStatusesOf(signals) ==
    IF signals = <<>>
    THEN <<>>
    ELSE (IF Head(signals)[1] = "step_status_changed" THEN <<Head(signals)>> ELSE <<>>)
         \o StepStatusesOf(Tail(signals))

\* the steps signalled running and neither completed nor failed since
RunningSteps(signals) ==
    {i \in 0..(MaxSteps + MaxOvershoot) :
        /\ <<i, "running">> \in signals
        /\ <<i, "completed">> \notin signals
        /\ <<i, "failed">> \notin signals}

OneStepRunning(signals) ==
    /\ Cardinality(RunningSteps(signals)) <= 1
    /\ \A i \in RunningSteps(signals) :
           \A j \in 0..(i - 1) : <<j, "completed">> \in signals

\* a progress event that is no delegation, or with no executing plan,
\* signals no step and leaves the cursor
OtherProgressIsSilent ==
    \A label \in ProgressLabels \cup {"MCP Unavailable"} :
        (ProgressEvent(label) /\ (label # "Delegating" \/ _executing_plan = NoPlan))
            => /\ _current_step_index' = _current_step_index
               /\ StepStatusesOf(emitted') = <<>>
               /\ stepSignals' = stepSignals

\* C32 as stated: every 'Delegating' event during an executing plan signals
\* the step the cursor pointed at completed, advances the cursor by one and
\* signals the step it now points at running, so that at most one step is
\* running and all steps before it are completed; any other progress event
\* signals no step and leaves the cursor.
C32_EveryDelegationStartsAStep ==
    [][/\ (ProgressEvent("Delegating") /\ _executing_plan # NoPlan)
           => /\ _current_step_index >= 0 =>
                     EmitsIn(emitted', StepStatus(_current_step_index, "completed"))
              /\ _current_step_index' = _current_step_index + 1
              /\ EmitsIn(emitted', StepStatus(_current_step_index + 1, "running"))
       /\ OneStepRunning(stepSignals')
       /\ OtherProgressIsSilent]_vars

\* C32, amended: the step the cursor pointed at is signalled completed and
\* the step it now points at running only where that step is one of the
\* plan; a delegation observed at or beyond the last step starts no step.
C32_DelegationAdvancesWithinPlan ==
    [][/\ (ProgressEvent("Delegating") /\ _executing_plan # NoPlan)
           => /\ _current_step_index' = _current_step_index + 1
              /\ StepStatusesOf(emitted') =
                     (IF 0 <= _current_step_index
                         /\ _current_step_index < Len(_executing_plan.steps)
                      THEN <<StepStatus(_current_step_index, "completed")>> ELSE <<>>)
                     \o (IF _current_step_index + 1 < Len(_executing_plan.steps)
                         THEN <<StepStatus(_current_step_index + 1, "running")>> ELSE <<>>)
       /\ OneStepRunning(stepSignals')
       /\ OtherProgressIsSilent]_vars

C32_Witness ==
    /\ _executing_plan # NoPlan
    /\ _current_step_index = 1
    /\ StepStatusesOf(emitted) = <<StepStatus(0, "completed"), StepStatus(1, "running")>>
    /\ RunningSteps(stepSignals) = {1}

\* a background run whose agent is executing and may call _send_progress
ProgressPossible == \E w \in DOMAIN workers : At(w, "agent")

\* the foreground thread runs the plan decision of handle_approval_response
\* or a slot of the worker's signals in this step
ForegroundHandlerStep ==
    \/ fg.pc = "approval_decide"
    \/ mainQueue # <<>> /\ mainQueue' = Tail(mainQueue)

\* C33: the executing plan and the step cursor have one writer at a time:
\* while a background run is active and can advance the cursor, no
\* foreground handler (plan approval, completion, error) writes them.
C33_SingleWriter ==
    [][(ProgressPossible /\ ForegroundHandlerStep)
       => /\ _executing_plan' = _executing_plan
          /\ _current_step_index' = _current_step_index]_vars

\* C34: a handle_approval_response call made while a plan is proposed
\* decides the plan and returns: it schedules no wake-up, sets no event and
\* leaves every worker, a suspended one included, as it is; a call made
\* while no plan is proposed touches no plan and announces no decision.
C34_PlanOrWaitNeverBoth ==
    [][/\ (fg.pc = "approval_decide" /\ _pending_plan # NoPlan /\
             (fg' # fg \/ _pending_plan' # _pending_plan))
           => /\ _pending_plan' = NoPlan
              /\ fg'.pc = "idle"
              /\ EmitsIn(emitted', PlanApprovedNotice) \/ EmitsIn(emitted', PlanDeclinedNotice)
              /\ \A w \in DOMAIN workers : workers'[w] = workers[w]
              /\ eventsSet' = eventsSet
              /\ _approval_event' = _approval_event
       /\ (fg.pc = "approval_decide" /\ _pending_plan = NoPlan /\ fg' # fg)
           => /\ fg'.pc = "idle"
              /\ ~EmitsIn(emitted', PlanApprovedNotice)
              /\ ~EmitsIn(emitted', PlanDeclinedNotice)
              /\ _pending_plan' = NoPlan
              /\ _executing_plan' = _executing_plan
              /\ _current_step_index' = _current_step_index
              /\ Len(workers') = Len(workers)]_vars

C34_Witness ==
    /\ Emits(PlanDeclinedNotice) \/ Emits(PlanApprovedNotice)
    /\ gate.kind = "approval"
    /\ At(gate.worker, "approval_suspended")
    /\ workers[gate.worker].callbacks = {}
    /\ _approval_event \notin eventsSet

\* C35: a gate request that has returned was resumed by a response handled
\* after its notification was emitted, and returned that response's value.
C35_OnlyLaterResponsesResume ==
    gate.returned =>
        /\ gate.responses >= 1
        /\ gate.kind = "approval" => gate.retApproved = gate.approved
        /\ gate.kind = "question" => gate.retAnswer = gate.answer

\* some exception of the tree reachable from exc through group members
\* and chained causes is a provisioning error
RECURSIVE ContainsMcpError(_)
ContainsMcpError(exc) ==
    \/ exc.class \in mcp_types
    \/ \E i \in DOMAIN exc.exceptions : ContainsMcpError(exc.exceptions[i])
    \/ exc.cause # <<>> /\ ContainsMcpError(exc.cause[1])

\* C36: _is_mcp_error(e) is true exactly when some exception reachable from
\* e through group members and chained causes is a timeout, missing-file,
\* connection or OS-level error.
C36_WholeTreeIsInspected ==
    returned.op = "_is_mcp_error" =>
        (returned.value <=> ContainsMcpError(returned.arg))

\* the retry invocation of worker w has started and has not terminated
RetryRunning(w) ==
    /\ workers[w].invocations = 2
    /\ workers[w].pc \in {"agent", "approval_emit", "approval_wait",
                          "approval_suspended", "question_emit",
                          "question_wait", "question_suspended"}

\* C37: the step that starts the retry invocation emits the 'MCP
\* Unavailable' progress notification and writes nothing to the ledger;
\* while the retry runs, the worker has its one AgentRun record, still
\* "running", and no step changes that record or adds one for the worker.
C37_RetryIsSilentToLedger ==
    [][\A w \in DOMAIN workers :
          /\ (workers[w].invocations = 1 /\ workers'[w].invocations = 2)
              => /\ ProgressEvent("MCP Unavailable")
                 /\ EmitsIn(emitted', Signal("message_received", "Assistant", "MCP Unavailable"))
                 /\ workers'[w].pc = "agent"
                 /\ ledger' = ledger
          /\ RetryRunning(w)
              => /\ RunsOf(w) = {workers[w].run}
                 /\ ledger[workers[w].run].status = "running"
                 /\ ledger[workers[w].run].committed = "running"
                 /\ {i \in DOMAIN ledger' : ledger'[i].worker = w} = RunsOf(w)
                 /\ ledger'[workers[w].run] = ledger[workers[w].run]]_vars

C37_Witness ==
    \E w \in DOMAIN workers :
        /\ RetryRunning(w)
        /\ Emits(Signal("history_entry", "MCP Unavailable", "running"))
        /\ workers[w].mcp_exc = "TimeoutError"
        /\ ledger[workers[w].run].status = "running"

\* C38: once a ledger write of a run has failed, no further ledger write is
\* made for that run and its agent is not launched (again): the records of
\* the worker stay as they are until the error is reported.
C38_WriteFailureIsFatal ==
    [][\A w \in DOMAIN workers :
          (isRunning(w) /\ workers[w].exc = DatabaseError)
              => /\ {i \in DOMAIN ledger' : ledger'[i].worker = w} = RunsOf(w)
                 /\ \A i \in RunsOf(w) : ledger'[i] = ledger[i]
                 /\ workers'[w].invocations = workers[w].invocations
                 /\ workers'[w].pc \in {"outer_except", "emit_error", "exit"}]_vars

\* C39: every step that announces a plan decision ('Plan approved' or
\* 'Plan declined') consumes a pending proposal, and every step that starts
\* an execution run starts it for the proposal it consumes; a
\* handle_approval_response call that finds no proposal pending (a
\* repeated approval or denial) starts no run, announces no decision and
\* leaves the executing plan, the cursor and the ledger as they are.
C39_PlanDecidedAtMostOnce ==
    [][/\ (EmitsIn(emitted', PlanApprovedNotice) \/ EmitsIn(emitted', PlanDeclinedNotice))
           => /\ fg.pc = "approval_decide"
              /\ _pending_plan # NoPlan
              /\ _pending_plan' = NoPlan
              /\ EmitsIn(emitted', PlanApprovedNotice) => _executing_plan' = _pending_plan
       /\ (fg.pc = "approval_decide" /\ _pending_plan = NoPlan /\ fg' # fg)
           => /\ Len(workers') = Len(workers)
              /\ _current_worker' = _current_worker
              /\ ~EmitsIn(emitted', PlanApprovedNotice)
              /\ ~EmitsIn(emitted', PlanDeclinedNotice)
              /\ ~EmitsIn(emitted', CompletedStatus)
              /\ _executing_plan' = _executing_plan
              /\ _current_step_index' = _current_step_index
              /\ ledger' = ledger]_vars

\* two responses have been handled and neither was an answer to a
\* question (no answer is stored and no question was asked): the plan was
\* approved, the approval was repeated, one execution run exists and no
\* proposal is pending
C39_Witness ==
    /\ fg.pc = "idle"
    /\ responses = 2
    /\ _question_answer = "" /\ _question_event = 0
    /\ _pending_plan = NoPlan
    /\ _executing_plan # NoPlan
    /\ Len(workers) = 2
    /\ workers[2].prompt = execution_prompt(_executing_plan, "ok")
    /\ _approval_result

\* C40: every step_status_changed signal carries an index of the executing
\* plan, 0 <= i < N, and the cursor is -1 whenever no plan is executing.
C40_StepIndicesInRange ==
    [][/\ \A k \in DOMAIN StepStatusesOf(emitted') :
              /\ _executing_plan # NoPlan
              /\ StepStatusesOf(emitted')[k][2] \in
                     {ToString(i) : i \in 0..(Len(_executing_plan.steps) - 1)}
       /\ _executing_plan' = NoPlan => _current_step_index' = -1]_vars

====
